---- MODULE Spec2Model ----
(***************************************************************************)
(* A model of the Note-App repository (DynaMax000/Note-App).               *)
(*                                                                         *)
(*   Spec       the note/folder store of App (src/utils/graphUtils.ts):    *)
(*              create, move (drag and drop), delete, delete-selected.     *)
(*   SpecGraph  generateGraphData over a bounded corpus (links).           *)
(*   SpecGroup  generateGraphData over a bounded corpus (folder groups).   *)
(*   SpecSync   the TiptapEditor content synchronisation effect together   *)
(*              with onUpdate -> onChange -> handleUpdateNote and rename.  *)
(*   SpecConv   the load path (marked + rewrites + setContent) and the     *)
(*              serialisation path (getHTML + turndown) as pure functions. *)
(*   SpecBack   getBacklinks over a bounded corpus.                        *)
(*   SpecEnter  the Enter key of the DelayedMarkdown extension             *)
(*              (src/components/TiptapEditor.tsx) and the default Enter.   *)
(*   SpecRule   the input rule and the paste rule of WikiLinkExtension.    *)
(*   SpecSave   the debounced save effect of App, with a clock; weak       *)
(*              fairness of the clock and of the timeout.                  *)
(*   SpecAi     streamAiChat (src/unnamed/part_001) and its service.       *)
(*   SpecClick  clicks on wiki-links: handleWikiLinkClick and the confirm  *)
(*              dialog.                                                    *)
(*   SpecPair   the auto-closing pairs of the editor's keyboard shortcuts. *)
(*   SpecLoad   the load path over lines with one wiki-link token.         *)
(*   SpecChat   handleSendAiMessage and the chunks of its streams.         *)
(*   SpecTabs   the tab bar: open, close, delete, delete-selected.         *)
(*   SpecTree   the store with attachments: upload and move as well.       *)
(*   SpecTitle  the title-suggestion effect with rename and title field.   *)
(*                                                                         *)
(* Strings are sequences of one-character strings.                         *)
(***************************************************************************)
EXTENDS Integers, Sequences, FiniteSets, TLC

VARIABLES
    \* --- store (App state) ---
    folders,      \* Folder[]  : sequence of [id, parentId]
    notes,        \* Note[]    : sequence of [id, folderId]
    nextId,       \* stands for generateId(): the next fresh id
    lastOp,       \* name of the handler that ran last
    moveLog,      \* what the last folder drop was aimed at and whether it changed folders
    attachments,  \* Attachment[] : sequence of [id, folderId]
    attachmentsNamed, \* the ids of the folders whose name is "Attachments"
    \* --- graph extraction ---
    gNotes,       \* the corpus handed to generateGraphData
    gFolders,
    gData,        \* its result
    gDone,
    \* --- markdown conversion ---
    cvIn,         \* the markdown loaded into the editor
    cvDoc,        \* the document it is parsed to
    cvOut,        \* the markdown the document is serialized to
    cvDoc2,       \* the document that markdown is parsed to
    cvOut2,       \* and its serialization
    cvStage,
    \* --- the open note and its editor ---
    sTitle,       \* note.title
    sContent,     \* note.content, the authoritative markdown
    sOpen,        \* the note is the active note: its editor is mounted
    sDoc,         \* the editor's document
    sEdits,       \* number of keys typed
    sEff,         \* the last step's run of the sync effect and the document it met
    sDrift,        \* a skipped reset that left the document behind the markdown
    \* --- backlinks ---
    bNotes,       \* the corpus getBacklinks reads
    bTarget,      \* the id it is asked for
    bResult,      \* the notes it returns
    bBefore,      \* the corpus as it was when getBacklinks was called
    bDone,
    \* --- the Enter key in the editor ---
    eDoc,         \* the blocks of the editor document
    eCur,         \* the block the cursor is in (at the end of its text)
    eBefore,      \* the document and cursor the last Enter met
    eLeft,        \* the document as the Enter handler of DelayedMarkdown left it
    eResult,      \* what the handler did: "none", "handled", "unhandled" or "threw"
    ePath,         \* the branch it took
    \* --- the wiki-link input and paste rules ---
    rTarget,      \* the characters to be typed or pasted
    rTyped,       \* the paragraph they are typed into
    rPos,         \* how many of them are typed
    rPasted,      \* the paragraph they are pasted into
    rPasteDone,
    \* --- the save effect ---
    vCorpus,      \* how often notes, folders and attachments were changed: what they hold
    vStatus,      \* saveStatus
    vTimer,       \* the pending saveTimeout: the time left and the corpus of its closure
    vStored,      \* what localStorage holds
    vSince,       \* the time since the last change, up to the idle interval
    vWrites,      \* the writes since the last change
    vAllWrites,   \* the writes since the first render
    vWroteAt,      \* the time since the last change at the last write
    \* --- the AI chat request ---
    aNotes,       \* allNotes; the first of them is the note of the chat
    aKey,         \* process.env.API_KEY is set
    aPhase,       \* "idle", "calling", "streaming", "returned" or "rejected"
    aChunks,      \* what onChunk was called with, in order
    aCalls,       \* calls of the service
    aContext,     \* the notes put into the prompt as linked notes
    aFailed,      \* the service call or the stream has failed
    aBefore,       \* allNotes at the call
    \* --- clicks on wiki-links ---
    kNotes,       \* notes: sequence of [id, title, content, folderId]
    kFolders,     \* folders: sequence of [id, collapsed]
    kOpen,        \* openNoteIds
    kActive,      \* activeNoteId
    kModal,       \* the confirm dialog: <<>> when closed, else the title it offers to create
    kSuppress,    \* localStorage "obsidian-gen-suppress-create-wiki-confirm" is "true"
    kNextId,      \* stands for generateId()
    kLast,         \* the last event and the state it met
    \* --- the auto-closing pairs ---
    pDoc,         \* the text blocks of the document: sequence of [type, text]
    pSel,         \* the selection: [fb, fo, tb, to], block and offset of its two ends
    pKeys,        \* keys typed
    pLast,         \* the last key, the state it met and what the shortcut did
    \* --- the chat of the AI panel (App) ---
    hActive,      \* whether a note is active
    hHistory,     \* chatHistory: [role, text], a text is a sequence of pieces
    hThinking,    \* aiThinking
    hFull,        \* fullResponse of each call of handleSendAiMessage
    hPhase,       \* each call: "none", "streaming" or "done"
    hSent,        \* the calls of handleSendAiMessage that passed its guard
    hOwner,        \* for each message the call that appended it, 0 for none
    \* --- the title suggestion (App) ---
    tTitles,      \* note.title of each note
    tActive,      \* activeNoteId
    tEditing,     \* editingId, 0 for null
    tTimer,       \* the pending timeout of the effect with what its closure holds
    tFlight,      \* the calls of suggestNoteTitle that have not returned
    tAsked,       \* how many calls were made
    tApplied      \* the last suggestion applied: the note, its title before, editingId

storeVars == <<folders, notes, nextId, lastOp, moveLog, attachments, attachmentsNamed>>
graphVars == <<gNotes, gFolders, gData, gDone>>
convVars == <<cvIn, cvDoc, cvOut, cvDoc2, cvOut2, cvStage>>
syncVars == <<sTitle, sContent, sOpen, sDoc, sEdits, sEff, sDrift>>
backVars == <<bNotes, bTarget, bResult, bBefore, bDone>>
enterVars == <<eDoc, eCur, eBefore, eLeft, eResult, ePath>>
ruleVars == <<rTarget, rTyped, rPos, rPasted, rPasteDone>>
saveVars == <<vCorpus, vStatus, vTimer, vStored, vSince, vWrites, vAllWrites, vWroteAt>>
aiVars == <<aNotes, aKey, aPhase, aChunks, aCalls, aContext, aFailed, aBefore>>
clickVars == <<kNotes, kFolders, kOpen, kActive, kModal, kSuppress, kNextId, kLast>>
pairVars == <<pDoc, pSel, pKeys, pLast>>
chatVars == <<hActive, hHistory, hThinking, hFull, hPhase, hSent, hOwner>>
titleVars == <<tTitles, tActive, tEditing, tTimer, tFlight, tAsked, tApplied>>
nonStoreVars == <<graphVars, convVars, syncVars, backVars, enterVars, ruleVars, saveVars, aiVars, clickVars, pairVars, chatVars, titleVars>>
nonGraphVars == <<storeVars, convVars, syncVars, backVars, enterVars, ruleVars, saveVars, aiVars, clickVars, pairVars, chatVars, titleVars>>
nonConvVars == <<storeVars, graphVars, syncVars, backVars, enterVars, ruleVars, saveVars, aiVars, clickVars, pairVars, chatVars, titleVars>>
nonSyncVars == <<storeVars, graphVars, convVars, backVars, enterVars, ruleVars, saveVars, aiVars, clickVars, pairVars, chatVars, titleVars>>
nonBackVars == <<storeVars, graphVars, convVars, syncVars, enterVars, ruleVars, saveVars, aiVars, clickVars, pairVars, chatVars, titleVars>>
nonEnterVars == <<storeVars, graphVars, convVars, syncVars, backVars, ruleVars, saveVars, aiVars, clickVars, pairVars, chatVars, titleVars>>
nonRuleVars == <<storeVars, graphVars, convVars, syncVars, backVars, enterVars, saveVars, aiVars, clickVars, pairVars, chatVars, titleVars>>
nonSaveVars == <<storeVars, graphVars, convVars, syncVars, backVars, enterVars, ruleVars, aiVars, clickVars, pairVars, chatVars, titleVars>>
nonAiVars == <<storeVars, graphVars, convVars, syncVars, backVars, enterVars, ruleVars, saveVars, clickVars, pairVars, chatVars, titleVars>>
nonClickVars == <<storeVars, graphVars, convVars, syncVars, backVars, enterVars, ruleVars, saveVars, aiVars, pairVars, chatVars, titleVars>>
nonPairVars == <<storeVars, graphVars, convVars, syncVars, backVars, enterVars, ruleVars, saveVars, aiVars, clickVars, chatVars, titleVars>>
nonChatVars == <<storeVars, graphVars, convVars, syncVars, backVars, enterVars, ruleVars, saveVars, aiVars, clickVars, pairVars, titleVars>>
nonTitleVars == <<storeVars, graphVars, convVars, syncVars, backVars, enterVars, ruleVars, saveVars, aiVars, clickVars, pairVars, chatVars>>
vars == <<storeVars, graphVars, convVars, syncVars, backVars, enterVars, ruleVars, saveVars, aiVars, clickVars, pairVars, chatVars, titleVars>>

-----------------------------------------------------------------------------
(* Generic helpers                                                         *)

Range(s) == {s[i] : i \in DOMAIN s}

\* Array.prototype.filter with the predicate given as the set of kept indexes
SelectSeqBy(s, keep) ==
    LET kept == keep \cap DOMAIN s
    IN [k \in 1..Cardinality(kept) |->
          s[CHOOSE i \in kept : Cardinality({j \in kept : j <= i}) = k]]

Abs(x) == IF x < 0 THEN -x ELSE x

-----------------------------------------------------------------------------
(* The store: folders and notes (src/utils/graphUtils.ts, App)             *)

\* undefined parentId / folderId
NoId == 0

\* how many ids generateId() hands out in one run of the model
MaxIds == 4

FolderIds(fs) == {fs[i].id : i \in DOMAIN fs}
NoteIds(ns) == {ns[i].id : i \in DOMAIN ns}

\* folders.find((f) => f.id === current)?.parentId
ParentOf(fs, current) ==
    IF \E i \in DOMAIN fs : fs[i].id = current
    THEN fs[CHOOSE i \in DOMAIN fs :
                /\ fs[i].id = current
                /\ \A j \in DOMAIN fs : fs[j].id = current => i <= j].parentId
    ELSE NoId

RECURSIVE WalkIsDescendant(_, _, _, _)
\* the while (current) loop of handleMoveFolder; fuel only cuts the walk in a
\* folder set that already holds a cycle, where the loop would never end
WalkIsDescendant(fs, folderId, current, fuel) ==
    IF current = NoId THEN FALSE
    ELSE IF current = folderId THEN TRUE
    ELSE IF fuel = 0 THEN TRUE
    ELSE WalkIsDescendant(fs, folderId, ParentOf(fs, current), fuel - 1)

SetParent(fs, folderId, targetParentId) ==
    [i \in DOMAIN fs |->
        IF fs[i].id = folderId
        THEN [fs[i] EXCEPT !.parentId = targetParentId]
        ELSE fs[i]]

\* handleMoveFolder without the descendant walk
handleMoveFolderNoWalk(fs, folderId, targetParentId) ==
    IF folderId = targetParentId THEN fs
    ELSE SetParent(fs, folderId, targetParentId)

handleMoveFolder(fs, folderId, targetParentId) ==
    IF folderId = targetParentId THEN fs
    ELSE IF WalkIsDescendant(fs, folderId, targetParentId, Len(fs) + 1) THEN fs
    ELSE SetParent(fs, folderId, targetParentId)

handleMoveNote(ns, noteId, targetFolderId) ==
    [i \in DOMAIN ns |->
        IF ns[i].id = noteId
        THEN [ns[i] EXCEPT !.folderId = targetFolderId]
        ELSE ns[i]]

RECURSIVE ReachesRoot(_, _, _)
\* FileTree renders a folder when its parent chain leads to the root level
ReachesRoot(fs, id, fuel) ==
    IF id = NoId THEN TRUE
    ELSE IF id \notin FolderIds(fs) \/ fuel = 0 THEN FALSE
    ELSE ReachesRoot(fs, ParentOf(fs, id), fuel - 1)

RenderedFolders(fs) == {id \in FolderIds(fs) : ReachesRoot(fs, id, Len(fs) + 1)}
RenderedNotes(fs, ns) ==
    {ns[i].id : i \in {j \in DOMAIN ns :
        ns[j].folderId = NoId \/ ns[j].folderId \in RenderedFolders(fs)}}

RenderedAttachments(fs, as) ==
    {as[i].id : i \in {j \in DOMAIN as :
        as[j].folderId = NoId \/ as[j].folderId \in RenderedFolders(fs)}}

RECURSIVE AncestorsOf(_, _, _)
\* the ids met when following parentId upwards from id
AncestorsOf(fs, id, fuel) ==
    LET p == ParentOf(fs, id)
    IN IF p = NoId \/ fuel = 0 THEN {}
       ELSE {p} \cup AncestorsOf(fs, p, fuel - 1)

NoMove == [ontoSelfOrDescendant |-> FALSE, changed |-> FALSE]

StoreInit ==
    /\ folders = <<>>
    /\ notes = <<>>
    /\ nextId = 1
    /\ lastOp = "init"
    /\ moveLog = NoMove
    /\ attachments = <<>>
    /\ attachmentsNamed = {}

CreateFolder ==
    \E parentId \in {NoId} \cup RenderedFolders(folders) :
        /\ nextId <= MaxIds
        /\ folders' = Append(folders, [id |-> nextId, parentId |-> parentId])
        /\ nextId' = nextId + 1
        /\ lastOp' = "handleCreateFolder"
    /\ moveLog' = NoMove
        /\ UNCHANGED notes
        /\ UNCHANGED <<attachments, attachmentsNamed>>
        /\ UNCHANGED nonStoreVars

CreateNote ==
    \E folderId \in {NoId} \cup RenderedFolders(folders) :
        /\ nextId <= MaxIds
        /\ notes' = <<[id |-> nextId, folderId |-> folderId]>> \o notes
        /\ nextId' = nextId + 1
        /\ lastOp' = "handleCreateNote"
    /\ moveLog' = NoMove
        /\ UNCHANGED folders
        /\ UNCHANGED <<attachments, attachmentsNamed>>
        /\ UNCHANGED nonStoreVars

\* onFolderDrop with a dragged folder
FolderDropFolder(folderId, targetFolderId) ==
    /\ folderId \in RenderedFolders(folders)
    /\ targetFolderId \in RenderedFolders(folders)
    /\ folders' = IF folderId # targetFolderId
                  THEN handleMoveFolder(folders, folderId, targetFolderId)
                  ELSE folders
    /\ lastOp' = "onFolderDrop"
    /\ moveLog' = [ontoSelfOrDescendant |->
                        \/ targetFolderId = folderId
                        \/ folderId \in AncestorsOf(folders, targetFolderId, Len(folders) + 1),
                    changed |-> folders' # folders]
    /\ UNCHANGED <<notes, nextId>>
    /\ UNCHANGED <<attachments, attachmentsNamed>>
    /\ UNCHANGED nonStoreVars

\* onFolderDrop with a dragged note
FolderDropNote(noteId, targetFolderId) ==
    /\ noteId \in RenderedNotes(folders, notes)
    /\ targetFolderId \in RenderedFolders(folders)
    /\ notes' = handleMoveNote(notes, noteId, targetFolderId)
    /\ lastOp' = "onFolderDropNote"
    /\ moveLog' = NoMove
    /\ UNCHANGED <<folders, nextId>>
    /\ UNCHANGED <<attachments, attachmentsNamed>>
    /\ UNCHANGED nonStoreVars

\* onRootDrop with a dragged folder
RootDropFolder(folderId) ==
    /\ folderId \in RenderedFolders(folders)
    /\ folders' = handleMoveFolder(folders, folderId, NoId)
    /\ lastOp' = "onRootDrop"
    /\ moveLog' = NoMove
    /\ UNCHANGED <<notes, nextId>>
    /\ UNCHANGED <<attachments, attachmentsNamed>>
    /\ UNCHANGED nonStoreVars

\* onRootDrop with a dragged note
RootDropNote(noteId) ==
    /\ noteId \in RenderedNotes(folders, notes)
    /\ notes' = handleMoveNote(notes, noteId, NoId)
    /\ lastOp' = "onRootDropNote"
    /\ moveLog' = NoMove
    /\ UNCHANGED <<folders, nextId>>
    /\ UNCHANGED <<attachments, attachmentsNamed>>
    /\ UNCHANGED nonStoreVars

\* deleteAction of handleDeleteFolder (confirmed, or confirmation suppressed)
DeleteFolder(id) ==
    /\ id \in RenderedFolders(folders)
    /\ LET kept == SelectSeqBy(folders, {i \in DOMAIN folders : folders[i].id # id})
       IN folders' = [i \in DOMAIN kept |->
                        IF kept[i].parentId = id
                        THEN [kept[i] EXCEPT !.parentId = NoId]
                        ELSE kept[i]]
    /\ notes' = [i \in DOMAIN notes |->
                    IF notes[i].folderId = id
                    THEN [notes[i] EXCEPT !.folderId = NoId]
                    ELSE notes[i]]
    /\ lastOp' = "handleDeleteFolder"
    /\ moveLog' = NoMove
    /\ UNCHANGED nextId
    /\ UNCHANGED <<attachments, attachmentsNamed>>
    /\ UNCHANGED nonStoreVars

\* deleteAction of handleDeleteNote
DeleteNote(id) ==
    /\ id \in RenderedNotes(folders, notes)
    /\ notes' = SelectSeqBy(notes, {i \in DOMAIN notes : notes[i].id # id})
    /\ lastOp' = "handleDeleteNote"
    /\ moveLog' = NoMove
    /\ UNCHANGED <<folders, nextId>>
    /\ UNCHANGED <<attachments, attachmentsNamed>>
    /\ UNCHANGED nonStoreVars

\* deleteAction of handleDeleteSelected, ids = Array.from(selectedIds)
DeleteSelected(ids) ==
    /\ ids # {}
    /\ notes' = SelectSeqBy(notes, {i \in DOMAIN notes :
                    notes[i].id \notin ids /\ notes[i].folderId \notin ids})
    /\ folders' = SelectSeqBy(folders, {i \in DOMAIN folders :
                    folders[i].id \notin ids /\ folders[i].parentId \notin ids})
    /\ attachments' = SelectSeqBy(attachments, {i \in DOMAIN attachments :
                    attachments[i].id \notin ids /\ attachments[i].folderId \notin ids})
    /\ UNCHANGED attachmentsNamed
    /\ lastOp' = "handleDeleteSelected"
    /\ moveLog' = NoMove
    /\ UNCHANGED nextId
    /\ UNCHANGED nonStoreVars

DropFolderOnFolder == \E f \in FolderIds(folders), t \in FolderIds(folders) : FolderDropFolder(f, t)
DropNoteOnFolder == \E n \in NoteIds(notes), t \in FolderIds(folders) : FolderDropNote(n, t)
DropFolderOnRoot == \E f \in FolderIds(folders) : RootDropFolder(f)
DropNoteOnRoot == \E n \in NoteIds(notes) : RootDropNote(n)
DeleteAFolder == \E f \in FolderIds(folders) : DeleteFolder(f)
DeleteANote == \E n \in NoteIds(notes) : DeleteNote(n)
DeleteTheSelection ==
    \E ids \in SUBSET (RenderedFolders(folders) \cup RenderedNotes(folders, notes)
                          \cup RenderedAttachments(folders, attachments)) :
        DeleteSelected(ids)

StoreIdle ==
    /\ folders = <<>>
    /\ notes = <<>>
    /\ nextId = 1
    /\ lastOp = "idle"
    /\ moveLog = NoMove
    /\ attachments = <<>>
    /\ attachmentsNamed = {}

GraphIdle ==
    /\ gNotes = <<>>
    /\ gFolders = <<>>
    /\ gData = [nodes |-> <<>>, links |-> <<>>]
    /\ gDone = FALSE

\* no conversion is under way
ConvIdle ==
    /\ cvIn = <<>>
    /\ cvDoc = <<>>
    /\ cvOut = <<>>
    /\ cvDoc2 = <<>>
    /\ cvOut2 = <<>>
    /\ cvStage = "idle"

NoEffect == [ran |-> FALSE, docSeen |-> <<>>]
NoDrift == [pending |-> FALSE, edited |-> FALSE, auth |-> <<>>, staleOut |-> <<>>]

\* no note is open
SyncIdle ==
    /\ sTitle = <<>>
    /\ sContent = <<>>
    /\ sOpen = FALSE
    /\ sDoc = <<>>
    /\ sEdits = 0
    /\ sEff = NoEffect
    /\ sDrift = NoDrift

\* no backlinks are computed
BackIdle ==
    /\ bNotes = <<>>
    /\ bTarget = 0
    /\ bResult = <<>>
    /\ bBefore = <<>>
    /\ bDone = FALSE

\* no key is pressed
EnterIdle ==
    /\ eDoc = <<>>
    /\ eCur = 0
    /\ eBefore = <<>>
    /\ eLeft = <<>>
    /\ eResult = "none"
    /\ ePath = "none"

\* nothing is typed or pasted
RuleIdle ==
    /\ rTarget = <<>>
    /\ rTyped = <<>>
    /\ rPos = 0
    /\ rPasted = <<>>
    /\ rPasteDone = FALSE

\* the save effect is not mounted
SaveIdle ==
    /\ vCorpus = <<>>
    /\ vStatus = "saved"
    /\ vTimer = <<>>
    /\ vStored = <<>>
    /\ vSince = 0
    /\ vWrites = 0
    /\ vAllWrites = 0
    /\ vWroteAt = 0

\* no request is made
AiIdle ==
    /\ aNotes = <<>>
    /\ aKey = FALSE
    /\ aPhase = "idle"
    /\ aChunks = <<>>
    /\ aCalls = 0
    /\ aContext = <<>>
    /\ aFailed = FALSE
    /\ aBefore = <<>>

\* no link is clicked
ClickIdle ==
    /\ kNotes = <<>>
    /\ kFolders = <<>>
    /\ kOpen = <<>>
    /\ kActive = 0
    /\ kModal = <<>>
    /\ kSuppress = FALSE
    /\ kNextId = 0
    /\ kLast = <<>>

\* no key is typed
PairIdle ==
    /\ pDoc = <<>>
    /\ pSel = <<>>
    /\ pKeys = 0
    /\ pLast = <<>>

\* no chat
ChatIdle ==
    /\ hActive = FALSE
    /\ hHistory = <<>>
    /\ hThinking = FALSE
    /\ hFull = <<>>
    /\ hPhase = <<>>
    /\ hSent = 0
    /\ hOwner = <<>>

\* no suggestion
TitleIdle ==
    /\ tTitles = <<>>
    /\ tActive = 0
    /\ tEditing = 0
    /\ tTimer = <<>>
    /\ tFlight = {}
    /\ tAsked = 0
    /\ tApplied = <<>>

RestIdle ==
    /\ BackIdle
    /\ EnterIdle
    /\ RuleIdle
    /\ SaveIdle
    /\ AiIdle
    /\ ClickIdle
    /\ PairIdle
    /\ ChatIdle
    /\ TitleIdle

OldIdle == StoreIdle /\ GraphIdle /\ ConvIdle /\ SyncIdle

QuietButBack == OldIdle /\ EnterIdle /\ RuleIdle /\ SaveIdle /\ AiIdle /\ ClickIdle /\ PairIdle /\ ChatIdle /\ TitleIdle
QuietButEnter == OldIdle /\ BackIdle /\ RuleIdle /\ SaveIdle /\ AiIdle /\ ClickIdle /\ PairIdle /\ ChatIdle /\ TitleIdle
QuietButRule == OldIdle /\ BackIdle /\ EnterIdle /\ SaveIdle /\ AiIdle /\ ClickIdle /\ PairIdle /\ ChatIdle /\ TitleIdle
QuietButSave == OldIdle /\ BackIdle /\ EnterIdle /\ RuleIdle /\ AiIdle /\ ClickIdle /\ PairIdle /\ ChatIdle /\ TitleIdle
QuietButAi == OldIdle /\ BackIdle /\ EnterIdle /\ RuleIdle /\ SaveIdle /\ ClickIdle /\ PairIdle /\ ChatIdle /\ TitleIdle
QuietButClick == OldIdle /\ BackIdle /\ EnterIdle /\ RuleIdle /\ SaveIdle /\ AiIdle /\ PairIdle /\ ChatIdle /\ TitleIdle
QuietButPair == OldIdle /\ BackIdle /\ EnterIdle /\ RuleIdle /\ SaveIdle /\ AiIdle /\ ClickIdle /\ ChatIdle /\ TitleIdle
QuietButChat == OldIdle /\ BackIdle /\ EnterIdle /\ RuleIdle /\ SaveIdle /\ AiIdle /\ ClickIdle /\ PairIdle /\ TitleIdle
QuietButTitle == OldIdle /\ BackIdle /\ EnterIdle /\ RuleIdle /\ SaveIdle /\ AiIdle /\ ClickIdle /\ PairIdle /\ ChatIdle

Init == StoreInit /\ GraphIdle /\ ConvIdle /\ SyncIdle /\ RestIdle

Next ==
    \/ CreateFolder
    \/ CreateNote
    \/ DropFolderOnFolder
    \/ DropNoteOnFolder
    \/ DropFolderOnRoot
    \/ DropNoteOnRoot
    \/ DeleteAFolder
    \/ DeleteANote
    \/ DeleteTheSelection

Spec == Init /\ [][Next]_vars

\* handleFileUpload(file) with the active note in parentFolderId (NoId when
\* no note is active or the note is at the root level): the first folder
\* named "Attachments" under it is taken, or one is made; the file is read
\* at once
FileUpload(parentFolderId) ==
    LET found == {i \in DOMAIN folders :
                    /\ folders[i].id \in attachmentsNamed
                    /\ folders[i].parentId = parentFolderId}
    IN IF found = {}
       THEN /\ nextId + 1 <= MaxIds
            /\ folders' = Append(folders, [id |-> nextId, parentId |-> parentFolderId])
            /\ attachmentsNamed' = attachmentsNamed \cup {nextId}
            /\ attachments' = Append(attachments, [id |-> nextId + 1, folderId |-> nextId])
            /\ nextId' = nextId + 2
       ELSE /\ nextId <= MaxIds
            /\ attachments' = Append(attachments,
                    [id |-> nextId,
                     folderId |-> folders[CHOOSE i \in found : \A j \in found : i <= j].id])
            /\ nextId' = nextId + 1
            /\ UNCHANGED <<folders, attachmentsNamed>>

UploadAFile ==
    /\ \E parentFolderId \in {NoId} \cup {notes[i].folderId : i \in DOMAIN notes} :
          FileUpload(parentFolderId)
    /\ lastOp' = "handleFileUpload"
    /\ moveLog' = NoMove
    /\ UNCHANGED notes
    /\ UNCHANGED nonStoreVars

\* handleMoveAttachment(attachmentId, targetFolderId), from a drop on a
\* folder or on the root level
MoveAttachment(attachmentId, targetFolderId) ==
    /\ attachmentId \in RenderedAttachments(folders, attachments)
    /\ attachments' = [i \in DOMAIN attachments |->
                          IF attachments[i].id = attachmentId
                          THEN [attachments[i] EXCEPT !.folderId = targetFolderId]
                          ELSE attachments[i]]
    /\ lastOp' = "handleMoveAttachment"
    /\ moveLog' = NoMove
    /\ UNCHANGED <<folders, notes, nextId, attachmentsNamed>>
    /\ UNCHANGED nonStoreVars

DropAttachment ==
    \E a \in {attachments[i].id : i \in DOMAIN attachments},
       t \in {NoId} \cup RenderedFolders(folders) : MoveAttachment(a, t)

\* the store with its attachments
TreeNext == Next \/ UploadAFile \/ DropAttachment

SpecTree == Init /\ [][TreeNext]_vars

-----------------------------------------------------------------------------
(* Strings                                                                 *)

\* String.prototype.toLowerCase, one character
LowerChar(c) ==
    CASE c = "A" -> "a"
      [] c = "B" -> "b"
      [] c = "C" -> "c"
      [] c = "X" -> "x"
      [] OTHER -> c

toLowerCase(s) == [i \in DOMAIN s |-> LowerChar(s[i])]

IsSpace(c) == c \in {" ", "\n"}

RECURSIVE trimStart(_)
trimStart(s) ==
    IF s # <<>> /\ IsSpace(s[1]) THEN trimStart(Tail(s)) ELSE s

RECURSIVE trimEnd(_)
trimEnd(s) ==
    IF s # <<>> /\ IsSpace(s[Len(s)]) THEN trimEnd(SubSeq(s, 1, Len(s) - 1)) ELSE s

\* String.prototype.trim
trim(s) == trimEnd(trimStart(s))

\* s.split(sep)[0]
SplitFirst(s, sep) ==
    IF \E i \in DOMAIN s : s[i] = sep
    THEN SubSeq(s, 1, (CHOOSE i \in DOMAIN s :
                          s[i] = sep /\ \A j \in 1..(i - 1) : s[j] # sep) - 1)
    ELSE s

\* s.indexOf / includes: sub occurs in s at position i
OccursAt(s, sub, i) ==
    /\ i >= 1
    /\ i + Len(sub) - 1 <= Len(s)
    /\ \A k \in 1..Len(sub) : s[i + k - 1] = sub[k]

includes(s, sub) == \E i \in 1..(Len(s) + 1) : OccursAt(s, sub, i)

startsWith(s, sub) == OccursAt(s, sub, 1)

\* /\[\[(.*?)\]\]/ tried at position i: the ends j of "[[" ... "]]" with no
\* line break between, the lazy quantifier taking the nearest one
WikiCloseAt(s, i) ==
    {j \in (i + 2)..(Len(s) - 1) :
        /\ s[j] = "]" /\ s[j + 1] = "]"
        /\ \A k \in (i + 2)..(j - 1) : s[k] # "\n"}

WikiOpensAt(s, i) ==
    /\ i + 1 <= Len(s)
    /\ s[i] = "[" /\ s[i + 1] = "["
    /\ WikiCloseAt(s, i) # {}

Min(S) == CHOOSE x \in S : \A y \in S : x <= y

RECURSIVE WikiLinkCaptures(_, _)
\* the match[1] of every wikiLinkRegex.exec(content) from lastIndex on, in order
WikiLinkCaptures(s, lastIndex) ==
    LET starts == {i \in lastIndex..Len(s) : WikiOpensAt(s, i)}
    IN IF starts = {} THEN <<>>
       ELSE LET i == Min(starts)
                j == Min(WikiCloseAt(s, i))
            IN <<SubSeq(s, i + 2, j - 1)>> \o WikiLinkCaptures(s, j + 2)

-----------------------------------------------------------------------------
(* generateGraphData (src/utils/graphUtils.ts)                             *)

\* folderToGroupMap: a later folder with the same id overwrites the entry
FolderGroupHas(fs, id) == \E i \in DOMAIN fs : fs[i].id = id

\* folderToGroupMap built from index + 1 instead of index + 2
FolderGroupGetFromOne(fs, id) ==
    CHOOSE i \in DOMAIN fs :
        fs[i].id = id /\ \A j \in DOMAIN fs : fs[j].id = id => j <= i

FolderGroupGet(fs, id) ==
    (CHOOSE i \in DOMAIN fs :
        fs[i].id = id /\ \A j \in DOMAIN fs : fs[j].id = id => j <= i) + 1

\* note.folderId ? (folderToGroupMap.get(note.folderId) || 1) : 1
NodeGroup(fs, folderId) ==
    IF folderId # NoId
    THEN (IF FolderGroupHas(fs, folderId) THEN FolderGroupGet(fs, folderId) ELSE 1)
    ELSE 1

GraphNodes(ns, fs) ==
    [i \in DOMAIN ns |->
        [id |-> ns[i].id, title |-> ns[i].title,
         group |-> NodeGroup(fs, ns[i].folderId)]]

\* noteTitleToIdMap: new Map(notes.map(...)), the last note of a title wins
TitleMapHas(ns, key) == \E i \in DOMAIN ns : toLowerCase(ns[i].title) = key
TitleMapGet(ns, key) ==
    ns[CHOOSE i \in DOMAIN ns :
          /\ toLowerCase(ns[i].title) = key
          /\ \A j \in DOMAIN ns : toLowerCase(ns[j].title) = key => j <= i].id

\* match[1].split('|')[0].trim().toLowerCase()
TargetTitle(capture) == toLowerCase(trim(SplitFirst(capture, "|")))

RECURSIVE LinksOfCaptures(_, _, _)
\* the loop body without the targetId !== sourceNote.id test
LinksOfCapturesWithSelf(ns, sourceId, caps) ==
    IF caps = <<>> THEN <<>>
    ELSE LET targetTitle == TargetTitle(Head(caps))
             rest == LinksOfCaptures(ns, sourceId, Tail(caps))
         IN IF TitleMapHas(ns, targetTitle)
            THEN <<[source |-> sourceId, target |-> TitleMapGet(ns, targetTitle),
                    value |-> 1]>> \o rest
            ELSE rest

\* the body of the while loop, over the captures of one source note
LinksOfCaptures(ns, sourceId, caps) ==
    IF caps = <<>> THEN <<>>
    ELSE LET targetTitle == TargetTitle(Head(caps))
             rest == LinksOfCaptures(ns, sourceId, Tail(caps))
         IN IF TitleMapHas(ns, targetTitle) /\ TitleMapGet(ns, targetTitle) # sourceId
            THEN <<[source |-> sourceId, target |-> TitleMapGet(ns, targetTitle),
                    value |-> 1]>> \o rest
            ELSE rest

RECURSIVE AllLinks(_, _)
\* notes.forEach(sourceNote => ...), from note k on
AllLinks(ns, k) ==
    IF k > Len(ns) THEN <<>>
    ELSE LinksOfCaptures(ns, ns[k].id, WikiLinkCaptures(ns[k].content, 1))
            \o AllLinks(ns, k + 1)

\* the links returned unfiltered
UniqueLinksKeepAll(links) == links

\* links.filter((link, index, self) => index === self.findIndex(...))
UniqueLinks(links) ==
    SelectSeqBy(links, {i \in DOMAIN links :
        \A j \in 1..(i - 1) :
            ~(links[j].source = links[i].source /\ links[j].target = links[i].target)})

generateGraphData(ns, fs) ==
    [nodes |-> GraphNodes(ns, fs), links |-> UniqueLinks(AllLinks(ns, 1))]

\* --- the corpora the graph specifications draw from ---

\* notes per corpus
MaxNotes == 2
\* folders per corpus
MaxFolders == 2

Wiki(inner) == <<"[", "[">> \o inner \o <<"]", "]">>

TitlePool == {<<"a">>, <<"A">>, <<"b">>}

ContentPool ==
    { <<>>,
      Wiki(<<"a">>),                                        \* [[a]]
      Wiki(<<"B">>) \o <<" ">> \o Wiki(<<"b">>),            \* [[B]] [[b]]
      Wiki(<<" ", "a", " ", "|", "x">>),                    \* [[ a |x]]
      Wiki(<<"c">>) \o Wiki(<<"b", "|", "a">>),             \* [[c]][[b|a]]
      <<"[", "[", "a", " ">> \o Wiki(<<"b">>),              \* [[a [[b]]
      <<"x", "[", "[", "a", "]">> }                         \* x[[a]

SeqsUpTo(S, n) == UNION {[1..k -> S] : k \in 0..n}

\* ids are distinct (generateId); the note at position i carries id i
LinkCorpora ==
    {[i \in DOMAIN tc |->
        [id |-> i, title |-> tc[i][1], content |-> tc[i][2], folderId |-> NoId]] :
        tc \in SeqsUpTo(TitlePool \X ContentPool, MaxNotes)}

FolderIdPool == 1..(MaxFolders + 1)

FolderLists ==
    {fl \in SeqsUpTo(FolderIdPool, MaxFolders) :
        \A i, j \in DOMAIN fl : i # j => fl[i] # fl[j]}

GroupCorpora ==
    {[i \in DOMAIN fc |->
        [id |-> 100 + i, title |-> <<"a">>, content |-> <<>>, folderId |-> fc[i]]] :
        fc \in SeqsUpTo({NoId} \cup FolderIdPool, MaxNotes)}

GraphInit ==
    /\ gNotes \in LinkCorpora
    /\ gFolders = <<>>
    /\ gData = [nodes |-> <<>>, links |-> <<>>]
    /\ gDone = FALSE
    /\ StoreIdle
    /\ ConvIdle
    /\ SyncIdle
    /\ RestIdle

GroupInit ==
    /\ gNotes \in GroupCorpora
    /\ gFolders \in {[i \in DOMAIN fl |-> [id |-> fl[i], parentId |-> NoId]] : fl \in FolderLists}
    /\ gData = [nodes |-> <<>>, links |-> <<>>]
    /\ gDone = FALSE
    /\ StoreIdle
    /\ ConvIdle
    /\ SyncIdle
    /\ RestIdle

\* the graph view calls generateGraphData(notes, folders)
Generate ==
    /\ ~gDone
    /\ gData' = generateGraphData(gNotes, gFolders)
    /\ gDone' = TRUE
    /\ UNCHANGED <<gNotes, gFolders>>
    /\ UNCHANGED nonGraphVars

\* the graph view is left; the derived snapshot is dropped
Discard ==
    /\ gDone
    /\ gData' = [nodes |-> <<>>, links |-> <<>>]
    /\ gDone' = FALSE
    /\ UNCHANGED <<gNotes, gFolders>>
    /\ UNCHANGED nonGraphVars

GraphNext == Generate \/ Discard

SpecGraph == GraphInit /\ [][GraphNext]_vars
SpecGroup == GroupInit /\ [][GraphNext]_vars

-----------------------------------------------------------------------------
(* The load path, first half: marked.parse                                 *)
(*                                                                         *)
(* marked, turndown and Tiptap/ProseMirror are libraries; they are         *)
(* modelled by what they do on the markdown the model feeds them:          *)
(* paragraphs, ATX headings and bullet items with an optional task marker, *)
(* inline text with * and _ emphasis, backslash escapes, [[...]] tokens    *)
(* and the inline HTML tags of emphasis.  Code, quotes, rules, links and   *)
(* images are not modelled.  A markdown string is a sequence of atoms: an  *)
(* atom is one character, or one inline HTML tag standing for its          *)
(* characters.  An HTML string is a sequence of tokens: a tag or one       *)
(* character of text.                                                      *)

InlineTags == {"<em>", "</em>", "<strong>", "</strong>"}

\* String.prototype.length
StrLen(s) ==
    Len(s) + 3 * Cardinality({i \in DOMAIN s : s[i] = "<em>"})
           + 4 * Cardinality({i \in DOMAIN s : s[i] = "</em>"})
           + 7 * Cardinality({i \in DOMAIN s : s[i] = "<strong>"})
           + 8 * Cardinality({i \in DOMAIN s : s[i] = "</strong>"})

\* the ASCII punctuation of the alphabet (what a backslash escapes)
AsciiPunct == {"*", "_", "\\", "[", "]", "|", "#", "-", "!", ".", "(", ")", ">", "+"}

\* marked's punctuation class of the emphasis rules takes white space too
IsPunctOrSpace(c) == c \in AsciiPunct \/ c \in InlineTags \/ IsSpace(c)
IsAlnum(c) == ~IsPunctOrSpace(c)

RECURSIVE SplitLines(_)
\* src.split('\n')
SplitLines(s) ==
    IF \E i \in DOMAIN s : s[i] = "\n"
    THEN LET i == Min({k \in DOMAIN s : s[k] = "\n"})
         IN <<SubSeq(s, 1, i - 1)>> \o SplitLines(SubSeq(s, i + 1, Len(s)))
    ELSE <<s>>

\* --- marked's inline tokenizer (escape, tag, emStrong, text) ---

\* length of the run of the delimiter at position i
RECURSIVE RunLen(_, _)
RunLen(s, i) ==
    IF i < Len(s) /\ s[i + 1] = s[i] THEN 1 + RunLen(s, i + 1) ELSE 1

\* position i is taken by a backslash escape that starts at i - 1
RECURSIVE IsEscapedAt(_, _)
IsEscapedAt(s, i) ==
    /\ i > 1
    /\ s[i - 1] = "\\"
    /\ s[i] \in AsciiPunct
    /\ ~IsEscapedAt(s, i - 1)

\* emStrongLDelim and the test on prevChar: the run at i of length n opens
CanOpen(s, i, n, prev) ==
    /\ i + n <= Len(s)
    /\ ~IsSpace(s[i + n])
    /\ (IsPunctOrSpace(s[i + n]) => (prev = "" \/ IsPunctOrSpace(prev)))
    /\ (s[i] = "_" => (prev = "" \/ ~IsAlnum(prev)))

\* emStrongRDelimAst / emStrongRDelimUnd classify the run at j of length m by
\* the characters around it: "left" (it can only open), "right" (it can only
\* close), "either", or "none" (the regular expression passes over it)
DelimKind(s, j, m) ==
    LET before == s[j - 1]
        atEnd == j + m > Len(s)
        after == IF atEnd THEN "" ELSE s[j + m]
        bSpace == IsSpace(before)
        bPunct == IsPunctOrSpace(before) /\ ~bSpace
        bAlnum == IsAlnum(before)
        aSpace == ~atEnd /\ IsSpace(after)
        aPunct == ~atEnd /\ IsPunctOrSpace(after) /\ ~aSpace
        aAlnum == ~atEnd /\ IsAlnum(after)
    IN CASE bPunct /\ (aSpace \/ atEnd) -> "right"
         [] bAlnum /\ (aSpace \/ aPunct \/ atEnd) -> "right"
         [] (bPunct \/ bSpace) /\ aAlnum -> "left"
         [] bSpace /\ aPunct -> "left"
         [] bPunct /\ aPunct -> "either"
         [] bAlnum /\ aAlnum /\ s[j] = "*" -> "either"
         [] OTHER -> "none"

\* the starts of the runs of delimiter d after position i that are not escaped
RunStarts(s, i, d) ==
    {j \in (i + 1)..Len(s) :
        /\ s[j] = d
        /\ s[j - 1] # d
        /\ ~IsEscapedAt(s, j)}

RECURSIVE ScanCloser(_, _, _, _, _)
\* the loop of emStrong over the later runs: a run that can only open adds
\* its length to delimTotal, a run that can do both and falls under the rule
\* of three is passed over (midDelimTotal), any other run takes its length
\* off, and the run that brings delimTotal to zero or below closes with
\* rLength of its characters.  The result is <<position, rLength>>, or
\* <<0, 0>> when nothing closes.
ScanCloser(s, runs, n, delimTotal, midDelimTotal) ==
    IF runs = {} THEN <<0, 0>>
    ELSE LET j == Min(runs)
             m == RunLen(s, j)
             kind == DelimKind(s, j, m)
             rest == runs \ {j}
         IN CASE kind = "none" -> ScanCloser(s, rest, n, delimTotal, midDelimTotal)
              [] kind = "left" -> ScanCloser(s, rest, n, delimTotal + m, midDelimTotal)
              [] kind = "either" /\ n % 3 # 0 /\ (n + m) % 3 = 0 ->
                    ScanCloser(s, rest, n, delimTotal, midDelimTotal + m)
              [] OTHER ->
                    IF delimTotal - m > 0
                    THEN ScanCloser(s, rest, n, delimTotal - m, midDelimTotal)
                    ELSE <<j, Min({m, m + (delimTotal - m) + midDelimTotal})>>

\* the closing run for the run of length n opened at i
CloserOf(s, i, n) == ScanCloser(s, RunStarts(s, i + n - 1, s[i]), n, n, 0)

\* the value of a set of one element: each stage of a computation is bound
\* once, as a local const is in the source
TheOne(S) == CHOOSE x \in S : TRUE

\* the first position from i on whose character the inline rules look at, or
\* the end of the text
NextSpecial(s, i) ==
    Min({k \in i..(Len(s) + 1) :
            k = Len(s) + 1 \/ s[k] \in {"\\", "*", "_", "["} \/ s[k] \in InlineTags})

\* the anchor marked writes for an inline link: <a href=" dest "> text </a>
LinkOpenTag == "<a href="
LinkOpenEnd == "\">"

\* marked's inline link rule /^!?\[(label)\]\(\s*(href)...\)/ tried at the "["
\* at i: the label may hold brackets nested one deep, the shortest label
\* wins.  The result is <<j, k>>, the positions of the "]" that ends the
\* label and of the ")" that ends the destination; <<0, 0>> when it fails.
InlineLinkAt(s, i) ==
    LET Depth(p) == Cardinality({q \in (i + 1)..p : s[q] = "["})
                        - Cardinality({q \in (i + 1)..p : s[q] = "]"})
        Label(j) == /\ \A p \in (i + 1)..(j - 1) : Depth(p) \in {0, 1}
                    /\ Depth(j - 1) = 0
        DestEnd(j) == {k \in (j + 2)..Len(s) :
                         /\ s[k] = ")"
                         /\ \A q \in (j + 2)..(k - 1) : s[q] \notin {" ", "\n", "(", ")", "<"}}
        Ends(str) == {j \in (i + 1)..(Len(str) - 2) :
                        /\ str[j] = "]"
                        /\ str[j + 1] = "("
                        /\ Label(j)
                        /\ DestEnd(j) # {}}
    IN TheOne({IF ends = {} THEN <<0, 0>> ELSE <<Min(ends), Min(DestEnd(Min(ends)))>> :
                  ends \in {Ends(str) : str \in {s}}})

RECURSIVE InlineTokens(_, _, _)
\* the inline tokens of a whole text
InlineHtml(s) == TheOne({InlineTokens(text, 1, "") : text \in {s}})

\* lexer.inlineTokens rendered by the default renderer, from position i on;
\* prev is the last character consumed ("" at the start).  The smaller of the
\* two delimiters decides: odd makes an em, even a strong, and what is left
\* of the delimiters stays in the text between them.
InlineTokens(s, i, prev) ==
    IF i > Len(s) THEN <<>>
    ELSE LET c == s[i]
         IN IF c = "\\" /\ i < Len(s) /\ s[i + 1] \in AsciiPunct
            THEN <<s[i + 1]>> \o InlineTokens(s, i + 2, s[i + 1])
            ELSE IF c \in InlineTags
            THEN <<c>> \o InlineTokens(s, i + 1, ">")
            ELSE IF c = "["
            THEN TheOne({IF l[1] # 0
                         THEN <<LinkOpenTag>> \o SubSeq(s, l[1] + 2, l[2] - 1) \o <<LinkOpenEnd>>
                                 \o InlineHtml(SubSeq(s, i + 1, l[1] - 1))
                                 \o <<"</a>">>
                                 \o InlineTokens(s, l[2] + 1, ")")
                         ELSE SubSeq(s, i, NextSpecial(s, i + 1) - 1)
                                 \o InlineTokens(s, NextSpecial(s, i + 1),
                                                 s[NextSpecial(s, i + 1) - 1]) :
                            l \in {InlineLinkAt(s, i)}})
            ELSE IF c \in {"*", "_"}
            THEN LET n == RunLen(s, i)
                     cl == IF CanOpen(s, i, n, prev) THEN CloserOf(s, i, n) ELSE <<0, 0>>
                     j == cl[1]
                     r == cl[2]
                     k == IF Min({n, r}) % 2 = 1 THEN 1 ELSE 2
                 IN IF j # 0 /\ r > 0
                    THEN <<(IF k = 1 THEN "<em>" ELSE "<strong>")>>
                            \o InlineHtml(SubSeq(s, i + k, j + r - 1 - k))
                            \o <<(IF k = 1 THEN "</em>" ELSE "</strong>")>>
                            \o InlineTokens(s, j + r, c)
                    ELSE <<c>> \o InlineTokens(s, i + 1, c)
            ELSE LET k == NextSpecial(s, i + 1)
                 IN SubSeq(s, i, k - 1) \o InlineTokens(s, k, s[k - 1])

\* --- marked's block tokenizer ---

IsBlankLine(l) == \A i \in DOMAIN l : l[i] = " "

\* /^(#{1,6})(?=\s|$)/ : the heading level of a line, 0 when it is none
HeadingLevel(l) ==
    IF l # <<>> /\ l[1] = "#"
    THEN LET n == RunLen(l, 1)
         IN IF n <= 6 /\ (n = Len(l) \/ l[n + 1] = " ") THEN n ELSE 0
    ELSE 0

\* /^[*+-][ \t]/ : a bullet followed by text
IsBulletLine(l) ==
    /\ Len(l) >= 2
    /\ l[1] \in {"-", "*", "+"}
    /\ l[2] = " "
    /\ ~IsBlankLine(Tail(l))

\* the line after the bullet and the blanks that follow it
BulletBody(l) == trimStart(Tail(l))

\* /^\[[ xX]\] / : the item is a task
IsTaskBody(b) ==
    /\ Len(b) >= 4
    /\ b[1] = "[" /\ b[2] \in {" ", "x", "X"} /\ b[3] = "]" /\ b[4] = " "

\* the checkbox marked renders for a task item, and the rest of the item
ItemTokens(b) ==
    IF IsTaskBody(b)
    THEN <<(IF b[2] = " " THEN "<input>" ELSE "<input checked>"), " ">>
            \o InlineHtml(trimStart(SubSeq(b, 4, Len(b))))
    ELSE InlineHtml(b)

HTag(n) == CASE n = 1 -> "<h1>" [] n = 2 -> "<h2>" [] n = 3 -> "<h3>"
             [] n = 4 -> "<h4>" [] n = 5 -> "<h5>" [] OTHER -> "<h6>"
HEndTag(n) == CASE n = 1 -> "</h1>" [] n = 2 -> "</h2>" [] n = 3 -> "</h3>"
                [] n = 4 -> "</h4>" [] n = 5 -> "</h5>" [] OTHER -> "</h6>"

\* the text of an ATX heading: marker and surrounding blanks removed
HeadingText(l) == trim(SubSeq(l, HeadingLevel(l) + 1, Len(l)))

\* /^ {0,3}\[(label)\]: *([^<\s][^\s]*) *$/ : a link reference definition (the
\* form without a title); it renders nothing
IsDefLine(l) ==
    \E c \in 2..Len(l) :
        /\ l[1] = "["
        /\ c > 2
        /\ \A i \in 2..(c - 1) : l[i] \notin {"[", "]", "\\"}
        /\ \E i \in 2..(c - 1) : ~IsSpace(l[i])
        /\ l[c] = "]"
        /\ c < Len(l) /\ l[c + 1] = ":"
        /\ LET dest == trim(SubSeq(l, c + 2, Len(l)))
           IN  /\ dest # <<>>
               /\ \A i \in DOMAIN dest : ~IsSpace(dest[i])
               /\ dest[1] # "<"

RECURSIVE BlockTokens(_, _, _, _)
\* the blocks of the lines from k on, rendered.  open is the block being
\* collected: "none", "p" (a paragraph), "li" (an item of a list) or "ul" (a
\* list whose last item was closed by a blank line); para holds the lines of
\* the paragraph or item so far.  A line of text continues the open paragraph
\* or item; a list ends at the first line after its items that is neither
\* blank nor a bullet.  (Items of a list with blank lines between them are
\* rendered with <p> inside; the editor reads both forms as the same nodes.)
\* A link reference definition that starts a block renders nothing.
BlockTokens(ls, k, open, para) ==
    LET closeP == CASE open = "p" ->
                         <<"<p>">> \o InlineHtml(trim(para)) \o <<"</p>", "\n">>
                    [] open = "li" ->
                         <<"<li>">> \o ItemTokens(trim(para)) \o <<"</li>", "\n">>
                    [] OTHER -> <<>>
        inList == open \in {"li", "ul"}
        closeL == IF inList THEN <<"</ul>", "\n">> ELSE <<>>
    IN IF k > Len(ls) THEN closeP \o closeL
       ELSE LET l == ls[k]
            IN IF IsBlankLine(l)
               THEN closeP \o BlockTokens(ls, k + 1, IF inList THEN "ul" ELSE "none", <<>>)
               ELSE IF HeadingLevel(l) > 0
               THEN closeP \o closeL
                      \o <<HTag(HeadingLevel(l))>> \o InlineHtml(HeadingText(l))
                      \o <<HEndTag(HeadingLevel(l)), "\n">>
                      \o BlockTokens(ls, k + 1, "none", <<>>)
               ELSE IF IsBulletLine(l)
               THEN closeP
                      \o (IF inList THEN <<>> ELSE <<"<ul>", "\n">>)
                      \o BlockTokens(ls, k + 1, "li", BulletBody(l))
               ELSE IF open \in {"p", "li"}
               THEN BlockTokens(ls, k + 1, open, para \o <<"\n">> \o l)
               ELSE IF IsDefLine(l)
               THEN closeL \o BlockTokens(ls, k + 1, "none", <<>>)
               ELSE closeL \o BlockTokens(ls, k + 1, "p", l)

\* marked.parse(content)
markedParse(md) ==
    TheOne({BlockTokens(lines, 1, "none", <<>>) : lines \in {SplitLines(md)}})

-----------------------------------------------------------------------------
(* The load path, second half: the wiki rewrite and editor.commands.setContent *)

WikiOpenTag == "<a href=wiki:$1 class=wiki-link>"

RECURSIVE WikiRewrite(_, _)
\* html.replace(/\[\[(.*?)\]\]/g, '<a href="wiki:$1" class="wiki-link">$1</a>')
\* from position `from` on.  The capture between the two tags stands for both
\* copies of $1: read as raw text it is the href, parsed it is the content.
WikiRewrite(html, from) ==
    LET starts == {i \in from..Len(html) : WikiOpensAt(html, i)}
    IN IF starts = {} THEN SubSeq(html, from, Len(html))
       ELSE LET i == Min(starts)
                j == Min(WikiCloseAt(html, i))
            IN SubSeq(html, from, i - 1)
                 \o <<WikiOpenTag>> \o SubSeq(html, i + 2, j - 1) \o <<"</a>">>
                 \o WikiRewrite(html, j + 2)

\* The document of the editor: a sequence of blocks.  Items of one list are
\* consecutive blocks.  An inline node is one character with its marks.
Block(type, level, checked, content) ==
    [type |-> type, level |-> level, checked |-> checked, content |-> content]

EmptyParagraph == Block("paragraph", 0, FALSE, <<>>)
EmptyDoc == <<EmptyParagraph>>

\* editor.isEmpty
isEmpty(doc) == doc = EmptyDoc

TextNode(c, strong, em, wiki, href) ==
    [ch |-> c, strong |-> strong, em |-> em, wiki |-> wiki, href |-> href]

BlockOpenTags == {"<p>", "<li>", "<h1>", "<h2>", "<h3>", "<h4>", "<h5>", "<h6>"}
BlockCloseTags == {"</p>", "</li>", "</h1>", "</h2>", "</h3>", "</h4>", "</h5>", "</h6>"}

\* the node a block tag is parsed to.  TaskItem's parseHTML only matches
\* li[data-type="taskItem"], which marked never writes, so every <li> is a
\* list item.
BlockOfTag(t) ==
    CASE t = "<p>" -> Block("paragraph", 0, FALSE, <<>>)
      [] t = "<li>" -> Block("listItem", 0, FALSE, <<>>)
      [] t = "<h1>" -> Block("heading", 1, FALSE, <<>>)
      [] t = "<h2>" -> Block("heading", 2, FALSE, <<>>)
      [] t = "<h3>" -> Block("heading", 3, FALSE, <<>>)
      [] t = "<h4>" -> Block("heading", 4, FALSE, <<>>)
      [] t = "<h5>" -> Block("heading", 5, FALSE, <<>>)
      [] OTHER -> Block("heading", 6, FALSE, <<>>)

\* the raw text of an anchor's capture: the tokens up to its end tag
HrefAt(html, i) ==
    LET ends == {j \in i..Len(html) : html[j] = "</a>"}
    IN IF ends = {} THEN SubSeq(html, i, Len(html))
       ELSE SubSeq(html, i, Min(ends) - 1)

\* ProseMirror's DOMParser without preserveWhitespace: a run of white space
\* becomes one blank
CollapseSpaces(ns) ==
    LET blanks == [i \in DOMAIN ns |->
                      IF IsSpace(ns[i].ch) THEN [ns[i] EXCEPT !.ch = " "] ELSE ns[i]]
    IN SelectSeqBy(blanks,
          {i \in DOMAIN ns : ~(i > 1 /\ IsSpace(ns[i].ch) /\ IsSpace(ns[i - 1].ch))})

RECURSIVE StripLeadingSpace(_)
StripLeadingSpace(ns) ==
    IF ns # <<>> /\ ns[1].ch = " " THEN StripLeadingSpace(Tail(ns)) ELSE ns

RECURSIVE StripTrailingSpace(_)
StripTrailingSpace(ns) ==
    IF ns # <<>> /\ ns[Len(ns)].ch = " "
    THEN StripTrailingSpace(SubSeq(ns, 1, Len(ns) - 1)) ELSE ns

\* and the white space at the two ends of a block is dropped
NormalizeInline(ns) == StripTrailingSpace(StripLeadingSpace(CollapseSpaces(ns)))

CloseBlock(b) == [b EXCEPT !.content = NormalizeInline(b.content)]

HtmlTags ==
    BlockOpenTags \cup BlockCloseTags \cup InlineTags
        \cup {"<ul>", "</ul>", "<input>", "<input checked>", WikiOpenTag, "</a>",
              LinkOpenTag, LinkOpenEnd}

\* the position behind the opening tag of a link that starts at i
LinkTagEnd(html, i) ==
    Min({k \in (i + 1)..(Len(html) + 1) : k = Len(html) + 1 \/ html[k] = LinkOpenEnd})

\* the position of the first tag from i on, or the end of the HTML
NextTag(html, i) ==
    Min({k \in i..(Len(html) + 1) : k = Len(html) + 1 \/ html[k] \in HtmlTags})

RECURSIVE ParseTokens(_, _, _, _, _)
\* DOMParser.parse over the tokens from i on.  blocks are the nodes closed so
\* far, cur is the open block (<<>> when none, <<b>> otherwise) and m the
\* marks in force: [strong, em, wiki, href]; a text with an href and without
\* the wiki-link mark is under the Link mark.
ParseTokens(html, i, blocks, cur, m) ==
    IF i > Len(html)
    THEN blocks \o (IF cur = <<>> THEN <<>> ELSE <<CloseBlock(cur[1])>>)
    ELSE LET t == html[i]
         IN CASE t \in BlockOpenTags ->
                    ParseTokens(html, i + 1,
                        blocks \o (IF cur = <<>> THEN <<>> ELSE <<CloseBlock(cur[1])>>),
                        <<BlockOfTag(t)>>, m)
              [] t \in BlockCloseTags ->
                    ParseTokens(html, i + 1,
                        blocks \o (IF cur = <<>> THEN <<>> ELSE <<CloseBlock(cur[1])>>),
                        <<>>, m)
              [] t \in {"<ul>", "</ul>", "<input>", "<input checked>"} ->
                    ParseTokens(html, i + 1, blocks, cur, m)
              [] t = "<strong>" ->
                    ParseTokens(html, i + 1, blocks, cur, [m EXCEPT !.strong = TRUE])
              [] t = "</strong>" ->
                    ParseTokens(html, i + 1, blocks, cur, [m EXCEPT !.strong = FALSE])
              [] t = "<em>" ->
                    ParseTokens(html, i + 1, blocks, cur, [m EXCEPT !.em = TRUE])
              [] t = "</em>" ->
                    ParseTokens(html, i + 1, blocks, cur, [m EXCEPT !.em = FALSE])
              [] t = WikiOpenTag ->
                    ParseTokens(html, i + 1, blocks, cur,
                        [m EXCEPT !.wiki = TRUE, !.href = HrefAt(html, i + 1)])
              [] t = LinkOpenTag ->
                    ParseTokens(html, LinkTagEnd(html, i) + 1, blocks, cur,
                        [m EXCEPT !.href = SubSeq(html, i + 1, LinkTagEnd(html, i) - 1)])
              [] t = "</a>" ->
                    ParseTokens(html, i + 1, blocks, cur,
                        [m EXCEPT !.wiki = FALSE, !.href = <<>>])
              [] OTHER ->
                    LET k == NextTag(html, i + 1)
                        text == [n \in 1..(k - i) |->
                                    TextNode(html[i + n - 1], m.strong, m.em, m.wiki, m.href)]
                    IN IF cur = <<>>
                       THEN ParseTokens(html, k, blocks, cur, m)
                       ELSE ParseTokens(html, k, blocks,
                               <<[cur[1] EXCEPT !.content = @ \o text]>>, m)

NoMarks == [strong |-> FALSE, em |-> FALSE, wiki |-> FALSE, href |-> <<>>]

\* editor.commands.setContent(html, false): the parsed document; a document
\* always holds at least one block
setContent(html) ==
    TheOne({IF blocks = <<>> THEN EmptyDoc ELSE blocks :
               blocks \in {ParseTokens(h, 1, <<>>, <<>>, NoMarks) : h \in {html}}})

\* The parse of the sync effect: marked.parse, then the wiki rewrite, then
\* setContent
ParseMarkdown(content) == setContent(WikiRewrite(markedParse(content), 1))

-----------------------------------------------------------------------------
(* The save path: turndownService.turndown(editor.getHTML())               *)
(*                                                                         *)
(* getHTML renders each block as its element and the marks of a text as    *)
(* nested inline elements, outermost first in the order of the schema      *)
(* (bold, italic, wikiLink); turndown walks that tree.                     *)

RECURSIVE EscapeChars(_)
\* turndown's escapes that apply anywhere in a text node
EscapeChars(s) ==
    LET hits == {i \in DOMAIN s : s[i] \in {"\\", "*", "_", "[", "]"}}
    IN IF hits = {} THEN s
       ELSE LET i == Min(hits)
            IN SubSeq(s, 1, i - 1) \o <<"\\", s[i]>> \o EscapeChars(SubSeq(s, i + 1, Len(s)))

\* and those anchored at the start of a text node: ^-, ^\+ , ^#{1,6} , ^>
EscapeText(s) ==
    LET e == EscapeChars(s)
        atStart == \/ s[1] \in {"-", ">"}
                   \/ s[1] = "+" /\ Len(s) >= 2 /\ s[2] = " "
                   \/ s[1] = "#" /\ HeadingLevel(s) > 0 /\ HeadingLevel(s) < Len(s)
    IN IF s # <<>> /\ atStart THEN <<"\\">> \o e ELSE e

Chars(ns) == [i \in DOMAIN ns |-> ns[i].ch]

\* the value of the mark of a rank on a node: 1 bold, 2 italic, 3 wikiLink
MarkAt(n, rank) ==
    CASE rank = 1 -> <<n.strong>>
      [] rank = 2 -> <<n.em>>
      [] OTHER -> <<n.wiki, n.href>>

MarkOn(n, rank) == MarkAt(n, rank)[1]

\* the length of the longest prefix of ns that carries the mark of ns[1]
SameMarkPrefix(ns, rank) ==
    Min({k \in DOMAIN ns :
            k = Len(ns) \/ MarkAt(ns[k + 1], rank) # MarkAt(ns[1], rank)})

RECURSIVE InlineMarkdown(_, _)
\* the replacement of a run of inline nodes whose marks of the ranks below
\* `rank` are equal: strong -> ** **, emphasis -> _ _ (both drop a blank
\* content), wikiLinks -> [[href without the wiki: prefix]]
InlineMarkdown(ns, rank) ==
    IF ns = <<>> THEN <<>>
    ELSE IF rank > 3 THEN EscapeText(Chars(ns))
    ELSE LET k == SameMarkPrefix(ns, rank)
             run == SubSeq(ns, 1, k)
             inner == InlineMarkdown(run, rank + 1)
             out == IF ~MarkOn(ns[1], rank) THEN inner
                    ELSE IF rank = 3 THEN <<"[", "[">> \o ns[1].href \o <<"]", "]">>
                    ELSE IF trim(inner) = <<>> THEN <<>>
                    ELSE IF rank = 1 THEN <<"*", "*">> \o inner \o <<"*", "*">>
                    ELSE <<"_">> \o inner \o <<"_">>
         IN out \o InlineMarkdown(SubSeq(ns, k + 1, Len(ns)), rank)

\* turndown's isBlank for a block: no text but white space
IsBlankBlock(b) == \A i \in DOMAIN b.content : IsSpace(b.content[i].ch)

IsItem(b) == b.type \in {"listItem", "taskItem"}

RECURSIVE Hashes(_)
Hashes(n) == IF n = 0 THEN <<>> ELSE <<"#">> \o Hashes(n - 1)

\* the replacement of one block.  A list item is the marker, the content and
\* the indented line break its paragraph leaves behind; without the GFM
\* plugin a task item has no rule of its own and its checkbox has no text, so
\* it is written as a list item.
BlockMarkdown(b) ==
    CASE b.type = "heading" -> Hashes(b.level) \o <<" ">> \o InlineMarkdown(b.content, 1)
      [] IsItem(b) -> <<"*", " ", " ", " ">> \o InlineMarkdown(b.content, 1)
                        \o <<"\n", " ", " ", " ", " ">>
      [] OTHER -> InlineMarkdown(b.content, 1)

RECURSIVE JoinBlocks(_)
\* join(): items of one list are one line break apart, other blocks two
JoinBlocks(bs) ==
    IF bs = <<>> THEN <<>>
    ELSE IF Len(bs) = 1 THEN BlockMarkdown(bs[1])
    ELSE BlockMarkdown(bs[1])
            \o (IF IsItem(bs[1]) /\ IsItem(bs[2]) THEN <<"\n">> ELSE <<"\n", "\n">>)
            \o JoinBlocks(Tail(bs))

\* turndownService.turndown(editor.getHTML()): blank blocks leave nothing,
\* and the result is trimmed
turndown(doc) ==
    trimEnd(JoinBlocks(SelectSeqBy(doc, {i \in DOMAIN doc : ~IsBlankBlock(doc[i])})))

-----------------------------------------------------------------------------
(* Specification SpecConv: markdown -> document -> markdown -> document -> *)
(* markdown, over a bounded set of markdown inputs                         *)

MaxPieces == 2

\* the inline fragments the inputs are built from
InlinePieces ==
    { <<"a">>, <<" ", "b">>,
      <<"*", "c", "*">>, <<"*", "*", "d", "*", "*">>, <<"_", "e", "_">>,
      Wiki(<<"T">>), Wiki(<<"T", "|", "L">>), Wiki(<<"_", "e", "_">>) }

RECURSIVE PieceSeqs(_)
\* the concatenations of 1..n fragments
PieceSeqs(n) ==
    IF n = 1 THEN InlinePieces
    ELSE LET shorter == PieceSeqs(n - 1)
         IN shorter \cup {p \o q : p \in shorter, q \in InlinePieces}

\* what a line starts with: nothing, a heading marker, a bullet, a task marker
LinePrefixes ==
    { <<>>, <<"#", " ">>, <<"-", " ">>,
      <<"-", " ", "[", "x", "]", " ">>, <<"-", " ", "[", " ", "]", " ">> }

OneLineDocs == {p \o t : p \in LinePrefixes, t \in PieceSeqs(MaxPieces)}

ShortLines == {p \o t : p \in LinePrefixes, t \in {<<"a">>, <<"*", "c", "*">>}}

TwoLineDocs ==
    {l1 \o sep \o l2 : l1 \in ShortLines, l2 \in ShortLines,
                       sep \in {<<"\n">>, <<"\n", "\n">>}}

\* "See [[Project Alpha|Alpha]] for details."
SeeProjectAlpha ==
    <<"S", "e", "e", " ">>
      \o Wiki(<<"P", "r", "o", "j", "e", "c", "t", " ", "A", "l", "p", "h", "a",
                "|", "A", "l", "p", "h", "a">>)
      \o <<" ", "f", "o", "r", " ", "d", "e", "t", "a", "i", "l", "s", ".">>

\* "- [x] Buy milk"
BuyMilk ==
    <<"-", " ", "[", "x", "]", " ", "B", "u", "y", " ", "m", "i", "l", "k">>

ConvInputs == OneLineDocs \cup TwoLineDocs \cup {<<>>, SeeProjectAlpha, BuyMilk}

ConvInit ==
    /\ StoreIdle
    /\ GraphIdle
    /\ SyncIdle
    /\ RestIdle
    /\ cvIn \in ConvInputs
    /\ cvDoc = <<>>
    /\ cvOut = <<>>
    /\ cvDoc2 = <<>>
    /\ cvOut2 = <<>>
    /\ cvStage = "input"

\* the sync effect's parse of the markdown into the empty editor
Load ==
    /\ cvStage = "input"
    /\ cvDoc' = ParseMarkdown(cvIn)
    /\ cvStage' = "loaded"
    /\ UNCHANGED <<cvIn, cvOut, cvDoc2, cvOut2>>
    /\ UNCHANGED nonConvVars

\* onUpdate: the document is serialized and handed to onChange
Serialize ==
    /\ cvStage = "loaded"
    /\ cvOut' = turndown(cvDoc)
    /\ cvStage' = "serialized"
    /\ UNCHANGED <<cvIn, cvDoc, cvDoc2, cvOut2>>
    /\ UNCHANGED nonConvVars

\* the saved markdown is loaded again (the note is reopened)
Reload ==
    /\ cvStage = "serialized"
    /\ cvDoc2' = ParseMarkdown(cvOut)
    /\ cvStage' = "reloaded"
    /\ UNCHANGED <<cvIn, cvDoc, cvOut, cvOut2>>
    /\ UNCHANGED nonConvVars

Reserialize ==
    /\ cvStage = "reloaded"
    /\ cvOut2' = turndown(cvDoc2)
    /\ cvStage' = "reserialized"
    /\ UNCHANGED <<cvIn, cvDoc, cvOut, cvDoc2>>
    /\ UNCHANGED nonConvVars

ConvNext == Load \/ Serialize \/ Reload \/ Reserialize

SpecConv == ConvInit /\ [][ConvNext]_vars

-----------------------------------------------------------------------------
(* Specification SpecSync: one note open in the editor, edited locally and *)
(* renamed from the file tree                                              *)

\* Math.abs(currentMarkdown.length - content.length) > 5
DriftTolerance == 5

MaxEdits == 2

\* the longest note content the renames may build
MaxContentLen == 10

\* the sync effect resetting whenever the difference reaches the tolerance
ShouldResetAtTolerance(doc, content) ==
    /\ content # <<>>
    /\ \/ isEmpty(doc)
       \/ Abs(StrLen(turndown(doc)) - StrLen(content)) >= DriftTolerance

\* if (editor && content) { ... if (editor.isEmpty || Math.abs(...) > 5)
ShouldReset(doc, content) ==
    /\ content # <<>>
    /\ \/ isEmpty(doc)
       \/ Abs(StrLen(turndown(doc)) - StrLen(content)) > DriftTolerance

\* the document the sync effect leaves behind
SyncEffect(doc, content) ==
    IF ShouldReset(doc, content) THEN ParseMarkdown(content) ELSE doc

\* the effect's dependency is the content prop: it runs when the string changes
AfterContent(doc, old, new) == IF new # old THEN SyncEffect(doc, new) ELSE doc

\* a character typed at the end of the document: it takes the bold and italic
\* of the text before it (wikiLink is not inclusive)
TypeAtEnd(doc, c) ==
    LET n == Len(doc)
        b == doc[n]
        last == IF b.content = <<>> THEN NoMarks ELSE b.content[Len(b.content)]
    IN [doc EXCEPT ![n].content = @ \o <<TextNode(c, last.strong, last.em, FALSE, <<>>)>>]

\* `# ${title}`
HeadingOf(title) == <<"#", " ">> \o title

\* content.replace(`# ${oldTitle}`, `# ${newTitle}`) when content starts with it
ReplaceHeading(content, oldTitle, newTitle) ==
    HeadingOf(newTitle) \o SubSeq(content, Len(HeadingOf(oldTitle)) + 1, Len(content))

\* handleRenameItem for a note: the new title and the new content
RenamedContent(content, oldTitle, newName) ==
    IF startsWith(content, HeadingOf(oldTitle))
    THEN ReplaceHeading(content, oldTitle, trim(newName))
    ELSE content

NoteTitle == <<"T">>
Name4 == <<"N", "a", "m", "e">>
Name5 == <<"N", "a", "m", "e", "s">>

\* what the inline rename field is submitted with
RenameInputs == {<<"U">>, <<" ", "U", " ">>, NoteTitle, Name4, Name5, <<" ">>}

\* what the title field above the editor is changed to
TitleInputs == {<<"U">>}

TypedChars == {"x"}

\* content: `# ${title}\n\n` of a new note, an empty note, a note of one line
InitialContents == {HeadingOf(NoteTitle) \o <<"\n", "\n">>, <<>>, <<"a">>}

\* whether the markdown says something else than the document
Drifted(doc, content) == turndown(ParseMarkdown(content)) # turndown(doc)

\* the record of a run of the sync effect that skipped the reset
DriftAfter(doc, old, new) ==
    IF new # old /\ ~ShouldReset(doc, new) /\ Drifted(doc, new)
    THEN [pending |-> TRUE, edited |-> FALSE, auth |-> new, staleOut |-> <<>>]
    ELSE NoDrift

SyncInit ==
    /\ StoreIdle
    /\ GraphIdle
    /\ ConvIdle
    /\ RestIdle
    /\ sTitle = NoteTitle
    /\ sContent \in InitialContents
    /\ sOpen = FALSE
    /\ sDoc = <<>>
    /\ sEdits = 0
    /\ sEff = NoEffect
    /\ sDrift = NoDrift

\* the note becomes the active note: MarkdownEditor is mounted under its key,
\* useEditor creates an empty editor and the sync effect runs
OpenNote ==
    /\ ~sOpen
    /\ sOpen' = TRUE
    /\ sDoc' = SyncEffect(EmptyDoc, sContent)
    /\ sEff' = [ran |-> TRUE, docSeen |-> EmptyDoc]
    /\ sDrift' = NoDrift
    /\ UNCHANGED <<sTitle, sContent, sEdits>>
    /\ UNCHANGED nonSyncVars

\* another note becomes active or the tab is closed: the editor is unmounted
CloseNote ==
    /\ sOpen
    /\ sOpen' = FALSE
    /\ sDoc' = <<>>
    /\ sEff' = NoEffect
    /\ sDrift' = NoDrift
    /\ UNCHANGED <<sTitle, sContent, sEdits>>
    /\ UNCHANGED nonSyncVars

\* a key is typed: onUpdate serializes the document, onChange stores it with
\* handleUpdateNote, and the sync effect sees the new content
TypeChar(c) ==
    /\ sOpen
    /\ sEdits < MaxEdits
    /\ \E doc \in {TypeAtEnd(sDoc, c)} : \E markdown \in {turndown(doc)} :
          /\ sContent' = markdown
          /\ sDoc' = AfterContent(doc, sContent, markdown)
          /\ sEff' = [ran |-> markdown # sContent, docSeen |-> doc]
          /\ sDrift' = IF sDrift.pending /\ ~sDrift.edited
                       THEN [sDrift EXCEPT !.edited = TRUE, !.staleOut = markdown]
                       ELSE NoDrift
    /\ sEdits' = sEdits + 1
    /\ UNCHANGED <<sTitle, sOpen>>
    /\ UNCHANGED nonSyncVars

\* everything is selected and deleted
ClearAll ==
    /\ sOpen
    /\ sDoc # EmptyDoc
    /\ \E markdown \in {turndown(EmptyDoc)} :
          /\ sContent' = markdown
          /\ sDoc' = AfterContent(EmptyDoc, sContent, markdown)
          /\ sEff' = [ran |-> markdown # sContent, docSeen |-> EmptyDoc]
    /\ sDrift' = NoDrift
    /\ UNCHANGED <<sTitle, sOpen, sEdits>>
    /\ UNCHANGED nonSyncVars

\* handleRenameItem(id, newName) for the note, from the file tree
RenameNote(newName) ==
    /\ trim(newName) # <<>>
    /\ \E content \in {RenamedContent(sContent, sTitle, newName)} :
          /\ StrLen(content) <= MaxContentLen
          /\ sTitle' = trim(newName)
          /\ sContent' = content
          /\ IF sOpen
             THEN /\ sDoc' = AfterContent(sDoc, sContent, content)
                  /\ sEff' = [ran |-> content # sContent, docSeen |-> sDoc]
                  /\ sDrift' = DriftAfter(sDoc, sContent, content)
             ELSE UNCHANGED <<sDoc, sEff, sDrift>>
    /\ UNCHANGED <<sOpen, sEdits>>
    /\ UNCHANGED nonSyncVars

\* onTitleChange: handleUpdateNote(id, {title}) and nothing else
ChangeTitleField(newTitle) ==
    /\ sOpen
    /\ newTitle # sTitle
    /\ sTitle' = newTitle
    /\ sEff' = NoEffect
    /\ sDrift' = IF sDrift.edited THEN NoDrift ELSE sDrift
    /\ UNCHANGED <<sContent, sDoc, sOpen, sEdits>>
    /\ UNCHANGED nonSyncVars

TypeAKey == \E c \in TypedChars : TypeChar(c)
RenameTheNote == \E n \in RenameInputs : RenameNote(n)
EditTheTitle == \E t \in TitleInputs : ChangeTitleField(t)

SyncNext ==
    \/ OpenNote
    \/ CloseNote
    \/ TypeAKey
    \/ ClearAll
    \/ RenameTheNote
    \/ EditTheTitle

SpecSync == SyncInit /\ [][SyncNext]_vars

-----------------------------------------------------------------------------
(* Specification SpecBack: getBacklinks over a bounded corpus              *)
(* (src/utils/graphUtils.ts, App)                                          *)

\* getBacklinks without its n.id === targetId test
getBacklinksWithSelf(ns, targetId) ==
    LET found == {i \in DOMAIN ns : ns[i].id = targetId}
    IN  IF found = {} THEN <<>>
        ELSE LET targetNote == ns[CHOOSE i \in found : \A j \in found : i <= j]
                 targetTitleLower == toLowerCase(targetNote.title)
             IN  SelectSeqBy(ns,
                    {i \in DOMAIN ns :
                        LET contentLower == toLowerCase(ns[i].content)
                        IN  \/ includes(contentLower, <<"[", "[">> \o targetTitleLower \o <<"]", "]">>)
                            \/ includes(contentLower, <<"[", "[">> \o targetTitleLower \o <<"|">>)})

\* const getBacklinks = (targetId) => { ... }: notes.find, then notes.filter
getBacklinks(ns, targetId) ==
    LET found == {i \in DOMAIN ns : ns[i].id = targetId}
    IN  IF found = {} THEN <<>>
        ELSE LET targetNote == ns[CHOOSE i \in found : \A j \in found : i <= j]
                 targetTitleLower == toLowerCase(targetNote.title)
             IN  SelectSeqBy(ns,
                    {i \in DOMAIN ns :
                        /\ ns[i].id # targetId
                        /\ LET contentLower == toLowerCase(ns[i].content)
                           IN  \/ includes(contentLower, <<"[", "[">> \o targetTitleLower \o <<"]", "]">>)
                               \/ includes(contentLower, <<"[", "[">> \o targetTitleLower \o <<"|">>)})

\* the ids getBacklinks is asked for: those of the corpus and one of no note
TargetIds == 1..(MaxNotes + 1)

BackInit ==
    /\ bNotes \in LinkCorpora
    /\ bTarget = 0
    /\ bResult = <<>>
    /\ bBefore = <<>>
    /\ bDone = FALSE
    /\ QuietButBack

\* const activeBacklinks = activeNote ? getBacklinks(activeNote.id) : []
\* (the unknown id stands for a caller holding the id of a deleted note)
Backlinks ==
    /\ ~bDone
    /\ \E t \in TargetIds :
        /\ bTarget' = t
        /\ bResult' = getBacklinks(bNotes, t)
    /\ bBefore' = bNotes
    /\ bDone' = TRUE
    /\ UNCHANGED bNotes
    /\ UNCHANGED nonBackVars

\* another note becomes active: the derived list is dropped
DropBacklinks ==
    /\ bDone
    /\ bTarget' = 0
    /\ bResult' = <<>>
    /\ bBefore' = <<>>
    /\ bDone' = FALSE
    /\ UNCHANGED bNotes
    /\ UNCHANGED nonBackVars

BackNext == Backlinks \/ DropBacklinks

SpecBack == BackInit /\ [][BackNext]_vars

-----------------------------------------------------------------------------
(* The Enter handler of DelayedMarkdown (src/components/TiptapEditor.tsx)  *)
(*                                                                         *)
(* The editor document is a sequence of blocks.  A block of type           *)
(* "listItem", "taskItem" or "blockquote" stands for that node holding one *)
(* paragraph; "paragraph", "heading" and "codeBlock" are text blocks at    *)
(* the top level.  The cursor is at the end of the text of its block.      *)
(* The atom "grave" stands for the grave accent of a code fence.           *)

Grave == "grave"

CodeBlock(language, content) ==
    [type |-> "codeBlock", level |-> 0, checked |-> FALSE, content |-> content,
     language |-> language]

Plain(c) == TextNode(c, FALSE, FALSE, FALSE, <<>>)

\* node.textContent
textContent(b) == [i \in DOMAIN b.content |-> b.content[i].ch]

\* $from.node().type.name : the innermost node around the cursor.  An item of
\* a list, a task item and a blockquote hold their text in a paragraph.
NodeTypeName(b) ==
    IF b.type \in {"listItem", "taskItem", "blockquote"} THEN "paragraph" ELSE b.type

\* \s of the alphabet
IsWhite(c) == c \in {" ", "\n"}

\* \w
IsWordChar(c) ==
    c \in {"a", "b", "c", "d", "e", "j", "s", "x", "A", "B", "T", "L", "X", "_", "1", "2"}

\* \d
IsDigit(c) == c \in {"0", "1", "2", "3", "4", "5", "6", "7", "8", "9"}

\* text.match(/^-\s\[([ xX])\]\s(.*)$/)
taskMatch(text) ==
    /\ Len(text) >= 6
    /\ text[1] = "-"
    /\ IsWhite(text[2])
    /\ text[3] = "["
    /\ text[4] \in {" ", "x", "X"}
    /\ text[5] = "]"
    /\ IsWhite(text[6])
    /\ \A i \in 7..Len(text) : text[i] # "\n"

\* taskMatch[1].toLowerCase() === "x"
isChecked(text) == LowerChar(text[4]) = "x"

\* taskMatch[2]
TaskContent(text) == SubSeq(text, 7, Len(text))

\* text.match(/^```(\w*)$/)
codeBlockMatch(text) ==
    /\ Len(text) >= 3
    /\ \A i \in 1..3 : text[i] = Grave
    /\ \A i \in 4..Len(text) : IsWordChar(text[i])

\* codeBlockMatch[1]
CodeLanguage(text) == SubSeq(text, 4, Len(text))

\* the test without the \s behind the block markers
isMarkdownNoBlank(text) ==
    \/ \E i \in DOMAIN text : text[i] \in {"*", "_", "~", Grave, "!", "[", "]"}
    \/ text # <<>> /\ text[1] \in {"#", "-", ">"}
    \/ \E n \in 1..Len(text) :
          /\ Len(text) >= n + 1
          /\ \A i \in 1..n : IsDigit(text[i])
          /\ text[n + 1] = "."

\* /[*_~`!\[\]]|^(#{1,6}|-|\d+\.|>)\s/.test(text)
isMarkdown(text) ==
    \/ \E i \in DOMAIN text : text[i] \in {"*", "_", "~", Grave, "!", "[", "]"}
    \/ \E n \in 1..6 :
          /\ Len(text) > n
          /\ \A i \in 1..n : text[i] = "#"
          /\ IsWhite(text[n + 1])
    \/ Len(text) >= 2 /\ text[1] \in {"-", ">"} /\ IsWhite(text[2])
    \/ \E n \in 1..Len(text) :
          /\ Len(text) >= n + 2
          /\ \A i \in 1..n : IsDigit(text[i])
          /\ text[n + 1] = "."
          /\ IsWhite(text[n + 2])

\* the html the handler inserts: marked.parse(text), its last line break
\* cut, a single <p>...</p> unwrapped, a blank appended after a closing tag
LineHtml(text) ==
    LET Cut(parsed) == IF parsed # <<>> /\ parsed[Len(parsed)] = "\n"
                       THEN SubSeq(parsed, 1, Len(parsed) - 1) ELSE parsed
        Single(cut) == /\ Len(cut) >= 2
                       /\ cut[1] = "<p>"
                       /\ cut[Len(cut)] = "</p>"
                       /\ ~\E i \in 1..(Len(cut) - 1) : cut[i] = "</p>" /\ cut[i + 1] = "<p>"
        Inner(cut) == IF Single(cut) THEN SubSeq(cut, 2, Len(cut) - 1) ELSE cut
        Blank(inner) == IF inner # <<>> /\ inner[Len(inner)] \in HtmlTags
                        THEN inner \o <<" ">> ELSE inner
    IN TheOne({Blank(inner) : inner \in {Inner(cut) : cut \in
                  {Cut(parsed) : parsed \in {markedParse(text)}}}})

RECURSIVE SliceNodes(_, _, _, _, _, _)
\* createNodeFromContent(html, schema, {slice: true, parseOptions:
\* {preserveWhitespace: "full"}}) of insertContentAt, over the tokens from i
\* on: the block nodes of the slice and the inline nodes left outside every
\* block.  White space is kept as it is; elementFromString drops a text node
\* that is one line break; text put directly into an <li> is wrapped in the
\* paragraph of the item; <ul> and <input> leave no node of their own in the
\* flat document.
SliceNodes(html, i, blocks, cur, inline, m) ==
    IF i > Len(html) THEN [blocks |-> blocks \o cur, inline |-> inline]
    ELSE LET t == html[i]
             lone == /\ t = "\n"
                     /\ (i = 1 \/ html[i - 1] \in HtmlTags)
                     /\ (i = Len(html) \/ html[i + 1] \in HtmlTags)
         IN CASE t \in BlockOpenTags ->
                    SliceNodes(html, i + 1, blocks \o cur, <<BlockOfTag(t)>>, inline, m)
              [] t \in BlockCloseTags ->
                    SliceNodes(html, i + 1, blocks \o cur, <<>>, inline, m)
              [] t \in {"<ul>", "</ul>", "<input>", "<input checked>"} \/ lone ->
                    SliceNodes(html, i + 1, blocks, cur, inline, m)
              [] t = "<strong>" ->
                    SliceNodes(html, i + 1, blocks, cur, inline, [m EXCEPT !.strong = TRUE])
              [] t = "</strong>" ->
                    SliceNodes(html, i + 1, blocks, cur, inline, [m EXCEPT !.strong = FALSE])
              [] t = "<em>" ->
                    SliceNodes(html, i + 1, blocks, cur, inline, [m EXCEPT !.em = TRUE])
              [] t = "</em>" ->
                    SliceNodes(html, i + 1, blocks, cur, inline, [m EXCEPT !.em = FALSE])
              [] t = WikiOpenTag ->
                    SliceNodes(html, i + 1, blocks, cur, inline,
                        [m EXCEPT !.wiki = TRUE, !.href = HrefAt(html, i + 1)])
              [] t = LinkOpenTag ->
                    SliceNodes(html, LinkTagEnd(html, i) + 1, blocks, cur, inline,
                        [m EXCEPT !.href = SubSeq(html, i + 1, LinkTagEnd(html, i) - 1)])
              [] t = "</a>" ->
                    SliceNodes(html, i + 1, blocks, cur, inline,
                        [m EXCEPT !.wiki = FALSE, !.href = <<>>])
              [] OTHER ->
                    LET k == NextTag(html, i + 1)
                        text == [n \in 1..(k - i) |->
                                    TextNode(html[i + n - 1], m.strong, m.em, m.wiki, m.href)]
                    IN IF cur = <<>>
                       THEN SliceNodes(html, k, blocks, cur, inline \o text, m)
                       ELSE SliceNodes(html, k, blocks,
                               <<[cur[1] EXCEPT !.content = @ \o text]>>, inline, m)

parseSlice(html) == SliceNodes(html, 1, <<>>, <<>>, <<>>, NoMarks)

\* an editor state: the document and the block of the cursor
EditorState(doc, cur) == [doc |-> doc, cur |-> cur]

\* tr.delete($from.start(), $from.end()) : the text of the cursor's block goes
DeleteLine(st) == EditorState([st.doc EXCEPT ![st.cur].content = <<>>], st.cur)

\* commands.insertContent(html) with the cursor at the end of its block.
\* Nothing is dispatched for an empty slice.  Inline nodes go into the text
\* block.  Block nodes alone replace an empty text block (from - 1, to + 1).
\* A slice of block nodes followed by inline nodes goes through
\* tr.replaceWith: the blocks do not fit the text block, so they are placed
\* after it in its parent and the inline nodes after them in a block of their
\* own, which is joined with what followed the cursor; the selection is set
\* to the end of the insertion.
insertContent(st, html) ==
    LET b == st.doc[st.cur]
        before == SubSeq(st.doc, 1, st.cur - 1)
        after == SubSeq(st.doc, st.cur + 1, Len(st.doc))
        Insert(slice) ==
            LET n == Len(slice.blocks)
            IN IF n = 0
               THEN EditorState([st.doc EXCEPT ![st.cur].content = @ \o slice.inline], st.cur)
               ELSE IF slice.inline = <<>> /\ b.content = <<>> /\ b.type # "codeBlock"
               THEN EditorState(before \o slice.blocks \o after, st.cur + n - 1)
               ELSE EditorState(before \o <<b>> \o slice.blocks
                                    \o <<[b EXCEPT !.content = slice.inline]>> \o after,
                                st.cur + n + 1)
    IN TheOne({Insert(slice) : slice \in {parseSlice(h) : h \in {html}}})

\* what the other Enter bindings do when the handler reports the key as
\* unhandled, the cursor being at the end of its block: CodeBlock (a third
\* Enter at the end leaves the block, exitOnTripleEnter), TaskItem and
\* ListItem (splitListItem; "checked" is not kept on split), and the core
\* keymap (newlineInCode, liftEmptyBlock, splitBlock)
DefaultEnter(st) ==
    LET b == st.doc[st.cur]
        before == SubSeq(st.doc, 1, st.cur - 1)
        after == SubSeq(st.doc, st.cur + 1, Len(st.doc))
        text == textContent(b)
        n == Len(text)
    IN CASE b.type = "codeBlock" ->
                IF n >= 2 /\ text[n] = "\n" /\ text[n - 1] = "\n"
                THEN EditorState(before \o <<[b EXCEPT !.content = SubSeq(@, 1, n - 2)],
                                             EmptyParagraph>> \o after, st.cur + 1)
                ELSE EditorState([st.doc EXCEPT ![st.cur].content = @ \o <<Plain("\n")>>],
                                 st.cur)
         [] b.type \in {"listItem", "taskItem", "blockquote"} ->
                IF b.content = <<>>
                THEN EditorState([st.doc EXCEPT ![st.cur] = EmptyParagraph], st.cur)
                ELSE EditorState(before \o <<b, Block(b.type, 0, FALSE, <<>>)>> \o after,
                                 st.cur + 1)
         [] OTHER ->
                EditorState(before \o <<b, EmptyParagraph>> \o after, st.cur + 1)

\* commands.toggleTaskList(): the block is wrapped into (or turned into) an
\* unchecked task item; a task item is lifted back to a paragraph
toggleTaskList(st) ==
    LET b == st.doc[st.cur]
    IN EditorState([st.doc EXCEPT ![st.cur] =
                       IF b.type = "taskItem" THEN Block("paragraph", 0, FALSE, b.content)
                       ELSE Block("taskItem", 0, FALSE, b.content)],
                   st.cur)

\* commands.updateAttributes("taskItem", {checked: true})
checkTaskItem(st) ==
    IF st.doc[st.cur].type = "taskItem"
    THEN EditorState([st.doc EXCEPT ![st.cur].checked = TRUE], st.cur)
    ELSE st

\* toggleCodeBlock() without its attributes: the language is not set
toggleCodeBlockNoLanguage(st, language) ==
    EditorState([st.doc EXCEPT ![st.cur] =
                    CodeBlock(<<>>, [i \in DOMAIN @.content |-> Plain(@.content[i].ch)])],
                st.cur)

\* commands.toggleCodeBlock({language}) on a block that is no code block
toggleCodeBlock(st, language) ==
    EditorState([st.doc EXCEPT ![st.cur] =
                    CodeBlock(language, [i \in DOMAIN @.content |-> Plain(@.content[i].ch)])],
                st.cur)

\* the branch of the handler a block takes
HandlerPath(b) ==
    LET text == textContent(b)
    IN CASE NodeTypeName(b) = "codeBlock" -> "codeBlock"
         [] NodeTypeName(b) # "paragraph" -> "notParagraph"
         [] taskMatch(text) -> "task"
         [] codeBlockMatch(text) -> "fence"
         [] trim(text) = <<>> -> "empty"
         [] ~isMarkdown(text) -> "plain"
         [] OTHER -> "parse"

\* commands.enter() is keyboardShortcut("Enter"): the key is sent through
\* the key bindings again, this handler first, under captureTransaction.
\* While capturing, dispatched transactions are collected and the editor
\* state stays as it is.  So a handler that takes the task or the parse
\* branch here ends in commands.enter() on the same state again, without
\* end: the call stack overflows and the RangeError is thrown through every
\* caller.  Otherwise the collected steps are applied.
enterCommand(st) ==
    LET path == HandlerPath(st.doc[st.cur])
    IN CASE path \in {"task", "parse"} -> [st |-> st, threw |-> TRUE]
         [] path = "fence" ->
                [st |-> toggleCodeBlock(DeleteLine(st), CodeLanguage(textContent(st.doc[st.cur]))),
                 threw |-> FALSE]
         [] OTHER -> [st |-> DefaultEnter(st), threw |-> FALSE]

Outcome(st, left, result, path) ==
    [doc |-> st.doc, cur |-> st.cur, left |-> left, result |-> result, path |-> path]

\* Enter: () => { ... } of addKeyboardShortcuts, followed, when it returns
\* false, by the bindings behind it
EnterKey(st) ==
    LET b == st.doc[st.cur]
        text == textContent(b)
        path == HandlerPath(b)
    IN CASE path = "task" ->
                LET toggled == toggleTaskList(DeleteLine(st))
                    Ticked(filled) == IF isChecked(text) THEN checkTaskItem(filled) ELSE filled
                IN TheOne({Outcome(r.st, r.st.doc, IF r.threw THEN "threw" ELSE "handled", path) :
                      r \in {enterCommand(Ticked(filled)) : filled \in
                          {IF TaskContent(text) # <<>>
                           THEN insertContent(toggled, TaskContent(text)) ELSE toggled}}})
         [] path = "fence" ->
                LET made == toggleCodeBlock(DeleteLine(st), CodeLanguage(text))
                IN Outcome(made, made.doc, "handled", path)
         [] path = "parse" ->
                TheOne({Outcome(r.st, r.st.doc, IF r.threw THEN "threw" ELSE "handled", path) :
                   r \in {enterCommand(inserted) : inserted \in
                       {insertContent(DeleteLine(st), LineHtml(text))}}})
         [] OTHER -> Outcome(DefaultEnter(st), st.doc, "unhandled", path)

-----------------------------------------------------------------------------
(* Specification SpecEnter: Enter pressed in a bounded set of documents    *)

\* blocks a document may grow to
MaxBlocks == 5

Str(s) == [i \in DOMAIN s |-> Plain(s[i])]

HeadingLines == {[i \in 1..(n + 2) |-> IF i <= n THEN "#" ELSE IF i = n + 1 THEN " " ELSE "T"] :
                    n \in 1..6}

TaskPrefix(flag) == <<"-", " ", "[", flag, "]", " ">>

TaskLines ==
    {TaskPrefix(f) \o t : f \in {" ", "x", "X"}, t \in {<<>>, <<"a">>}}
        \cup {TaskPrefix(" ") \o <<"*", "c", "*">>, TaskPrefix(" ") \o <<"<em>", "a", "</em>">>}

FenceLines == {<<Grave, Grave, Grave>>, <<Grave, Grave, Grave, "j", "s">>}

\* the texts of a paragraph when Enter is pressed
ParagraphTexts ==
    HeadingLines \cup TaskLines \cup FenceLines
        \cup { <<>>, <<" ">>, <<"a">>, <<"a", " ", "b">>,
               <<"*", "c", "*">>, <<"*", "*", "d", "*", "*">>, <<"a", "!">>,
               <<"-", " ", "a">>,
               <<"[", "a", "]", ":", " ", "b">>,
               <<"#", "a">>, <<"-", "a">>, <<">", "a">>, <<"1", ".", "a">> }

\* the texts of the other blocks
OtherTexts == {<<>>, <<"a">>, <<"*", "c", "*">>, <<"a", "!">>}

CodeTexts == {<<>>, <<"a">>, <<"a", "\n", "\n">>, <<"#", " ", "T">>}

EnterBlocks ==
    {Block("paragraph", 0, FALSE, Str(t)) : t \in ParagraphTexts}
        \cup {Block("heading", 2, FALSE, Str(t)) : t \in OtherTexts}
        \cup {Block(ty, 0, FALSE, Str(t)) : ty \in {"listItem", "blockquote"}, t \in OtherTexts}
        \cup {Block("taskItem", 0, c, Str(t)) : c \in BOOLEAN, t \in OtherTexts}
        \cup {CodeBlock(<<"j", "s">>, Str(t)) : t \in CodeTexts}

\* the cursor's block, alone or below a paragraph
EnterDocs ==
    {lead \o <<b>> : lead \in {<<>>, <<Block("paragraph", 0, FALSE, Str(<<"a">>))>>},
                     b \in EnterBlocks}

EnterInit ==
    /\ eDoc \in EnterDocs
    /\ eCur = Len(eDoc)
    /\ eBefore = <<>>
    /\ eLeft = <<>>
    /\ eResult = "none"
    /\ ePath = "none"
    /\ QuietButEnter

\* the Enter key.  After an exception thrown inside captureTransaction the
\* editor keeps collecting transactions and applies none.
PressEnter ==
    /\ eResult # "threw"
    /\ Len(eDoc) < MaxBlocks
    /\ \E o \in {EnterKey(EditorState(eDoc, eCur))} :
          /\ eDoc' = o.doc
          /\ eCur' = o.cur
          /\ eLeft' = o.left
          /\ eResult' = o.result
          /\ ePath' = o.path
    /\ eBefore' = <<EditorState(eDoc, eCur)>>
    /\ UNCHANGED nonEnterVars

EnterNext == PressEnter

SpecEnter == EnterInit /\ [][EnterNext]_vars

-----------------------------------------------------------------------------
(* The input rule and the paste rule of WikiLinkExtension                  *)
(* (src/components/TiptapEditor.tsx); a paragraph is its inline content    *)

\* href: `wiki:${text}` ; the atom "wiki:" stands for the prefix
WikiHref(text) == <<"wiki:">> \o text

\* the handler of the input rule: tr.replaceWith(start, end, schema.text(text))
\* and tr.addMark(start, start + text.length, wikiLink {href}); nothing when
\* the capture is empty.  para is the paragraph, start..end the matched range
\* (end exclusive, as offsets into para + 1)
inputRuleHandler(para, start, end, text) ==
    IF text = <<>> THEN para
    ELSE SubSeq(para, 1, start - 1)
            \o [i \in DOMAIN text |-> TextNode(text[i], FALSE, FALSE, TRUE, WikiHref(text))]
            \o SubSeq(para, end, Len(para))

\* the paste rule's handler with the mark put on one character less
pasteRuleHandlerShort(para, start, end, text) ==
    IF text = <<>> THEN para
    ELSE SubSeq(para, 1, start - 1)
            \o [i \in DOMAIN text |->
                   IF i < Len(text) THEN TextNode(text[i], FALSE, FALSE, TRUE, WikiHref(text))
                   ELSE Plain(text[i])]
            \o SubSeq(para, end, Len(para))

\* the handler of the paste rule
pasteRuleHandler(para, start, end, text) ==
    IF text = <<>> THEN para
    ELSE SubSeq(para, 1, start - 1)
            \o [i \in DOMAIN text |-> TextNode(text[i], FALSE, FALSE, TRUE, WikiHref(text))]
            \o SubSeq(para, end, Len(para))

\* /\[\[([^\]]+)\]\]$/ on s: the start of the leftmost match, 0 when none
InputRuleFind(s) ==
    LET n == Len(s)
        starts == {i \in 1..(n - 4) :
                      /\ s[i] = "[" /\ s[i + 1] = "["
                      /\ s[n - 1] = "]" /\ s[n] = "]"
                      /\ \A k \in (i + 2)..(n - 2) : s[k] # "]"}
    IN IF starts = {} THEN 0 ELSE Min(starts)

\* /\[\[([^\]]+)\]\]/g tried at i: the position of the closing "]]", 0 when
\* there is no match at i
PasteRuleCloseAt(s, i) ==
    IF i + 1 <= Len(s) /\ s[i] = "[" /\ s[i + 1] = "["
    THEN LET closers == {k \in (i + 2)..Len(s) : s[k] = "]"}
         IN IF closers = {} THEN 0
            ELSE LET j == Min(closers)
                 IN IF j > i + 2 /\ j < Len(s) /\ s[j + 1] = "]" THEN j ELSE 0
    ELSE 0

RECURSIVE PasteRuleRun(_, _)
\* the paste rule over a pasted paragraph: every match of text.matchAll(find)
\* from offset i on is handed to the handler, the ranges mapped through the
\* earlier replacements
PasteRuleRun(para, i) ==
    LET s == [k \in DOMAIN para |-> para[k].ch]
        hits == {k \in i..Len(s) : PasteRuleCloseAt(s, k) # 0}
    IN IF hits = {} THEN para
       ELSE LET k == Min(hits)
                j == PasteRuleCloseAt(s, k)
                text == SubSeq(s, k + 2, j - 1)
            IN PasteRuleRun(pasteRuleHandler(para, k, j + 2, text), k + Len(text))

\* the text input of one character c at the end of the paragraph: the input
\* rule is tried on the text before the cursor plus c; when it matches, its
\* range is what of the match is in the paragraph and c is not inserted
handleTextInput(para, c) ==
    LET s == [k \in DOMAIN para |-> para[k].ch] \o <<c>>
        k == InputRuleFind(s)
    IN IF k = 0 THEN para \o <<Plain(c)>>
       ELSE inputRuleHandler(para, k, Len(para) + 1, SubSeq(s, k + 2, Len(s) - 2))

-----------------------------------------------------------------------------
(* Specification SpecRule: the same characters typed and pasted            *)

\* the texts between the brackets
LinkTexts ==
    { <<"a">>, <<"a", " ", "b">>, <<"T", "|", "L">>, <<"[", "a">>, <<"x", " ", "[", "[", "a">>,
      <<"a", "[">>, <<"|">>, <<" ">>,
      <<>>, <<"a", "]", "b">>, <<"a", "]">>, <<"]", "a">>, Wiki(<<"a">>) }

\* what comes before and after the token
RuleContexts == {<<>>, <<"x">>, <<"[">>}

\* brackets that do not pair up
MalformedTargets ==
    { <<"[", "[", "[", "a", "]", "]">>, <<"[", "[", "a", "[", "[", "b", "]", "]">>,
      <<"[", "[", "a", "]">>, <<"[", "[", "]", "]">> }

RuleTargets ==
    {pre \o Wiki(t) \o post : pre \in RuleContexts, post \in {<<>>, <<"x">>}, t \in LinkTexts}
        \cup MalformedTargets

RuleInit ==
    /\ rTarget \in RuleTargets
    /\ rTyped = <<>>
    /\ rPos = 0
    /\ rPasted = <<>>
    /\ rPasteDone = FALSE
    /\ QuietButRule

\* the next character of the target is typed
TypeNext ==
    /\ rPos < Len(rTarget)
    /\ rTyped' = handleTextInput(rTyped, rTarget[rPos + 1])
    /\ rPos' = rPos + 1
    /\ UNCHANGED <<rTarget, rPasted, rPasteDone>>
    /\ UNCHANGED nonRuleVars

\* the target is pasted into an empty paragraph
PasteAll ==
    /\ ~rPasteDone
    /\ rPasted' = PasteRuleRun(Str(rTarget), 1)
    /\ rPasteDone' = TRUE
    /\ UNCHANGED <<rTarget, rTyped, rPos>>
    /\ UNCHANGED nonRuleVars

RuleNext == TypeNext \/ PasteAll

SpecRule == RuleInit /\ [][RuleNext]_vars

-----------------------------------------------------------------------------
(* Specification SpecSave: the save effect of App                          *)
(* (src/utils/graphUtils.ts).  The corpus is abstracted to the number of   *)
(* changes each of its three collections has seen; time passes in steps.   *)

\* setTimeout(..., 1500)
IdleInterval == 1500

\* the length of a step of time
TickMs == 500

\* changes to the corpus in one run
MaxChanges == 3

Corpus(n, f, a) == [notes |-> n, folders |-> f, attachments |-> a]

Changes(c) == c.notes + c.folders + c.attachments

\* the effect without the restart: a pending timeout is kept as it is
SaveEffectKeepingTimer(corpus) ==
    /\ vStatus' = "saving"
    /\ vTimer' = IF vTimer = <<>> THEN <<[left |-> IdleInterval, snapshot |-> corpus]>>
                 ELSE vTimer

\* what the effect does when its dependencies have changed: the cleanup of
\* the previous run clears its timeout, then setSaveStatus("saving") and a
\* new timeout whose closure holds the corpus of this render
SaveEffect(corpus) ==
    /\ vStatus' = "saving"
    /\ vTimer' = <<[left |-> IdleInterval, snapshot |-> corpus]>>

\* after the first render the effect has run once
SaveInit ==
    /\ vCorpus = Corpus(0, 0, 0)
    /\ vStored = Corpus(0, 0, 0)
    /\ vStatus = "saving"
    /\ vTimer = <<[left |-> IdleInterval, snapshot |-> Corpus(0, 0, 0)]>>
    /\ vSince = 0
    /\ vWrites = 0
    /\ vAllWrites = 0
    /\ vWroteAt = 0
    /\ QuietButSave

\* a handler sets a new corpus; the effect runs after the render
Change(corpus) ==
    /\ Changes(vCorpus) < MaxChanges
    /\ vCorpus' = corpus
    /\ SaveEffect(corpus)
    /\ vSince' = 0
    /\ vWrites' = 0
    /\ UNCHANGED <<vStored, vAllWrites, vWroteAt>>
    /\ UNCHANGED nonSaveVars

\* setNotes(...)
ChangeNotes == Change([vCorpus EXCEPT !.notes = @ + 1])

\* setFolders(...)
ChangeFolders == Change([vCorpus EXCEPT !.folders = @ + 1])

\* setAttachments(...)
ChangeAttachments == Change([vCorpus EXCEPT !.attachments = @ + 1])

\* time passes; a timeout that is due runs before more time passes
Tick ==
    /\ IF vTimer = <<>> THEN TRUE ELSE vTimer[1].left > 0
    /\ vSince < IdleInterval
    /\ vSince' = IF vSince + TickMs > IdleInterval THEN IdleInterval ELSE vSince + TickMs
    /\ vTimer' = IF vTimer = <<>> THEN <<>>
                 ELSE <<[vTimer[1] EXCEPT !.left = IF @ > TickMs THEN @ - TickMs ELSE 0]>>
    /\ UNCHANGED <<vCorpus, vStatus, vStored, vWrites, vAllWrites, vWroteAt>>
    /\ UNCHANGED nonSaveVars

\* the timeout runs: the three setItem calls and setSaveStatus("saved")
FireTimer ==
    /\ IF vTimer = <<>> THEN FALSE ELSE vTimer[1].left = 0
    /\ vStored' = vTimer[1].snapshot
    /\ vStatus' = "saved"
    /\ vTimer' = <<>>
    /\ vWrites' = vWrites + 1
    /\ vAllWrites' = vAllWrites + 1
    /\ vWroteAt' = vSince
    /\ UNCHANGED <<vCorpus, vSince>>
    /\ UNCHANGED nonSaveVars

SaveNext == ChangeNotes \/ ChangeFolders \/ ChangeAttachments \/ Tick \/ FireTimer

\* the browser lets time pass and runs a timeout that is due
SpecSave == SaveInit /\ [][SaveNext]_vars /\ WF_vars(Tick) /\ WF_vars(FireTimer)

-----------------------------------------------------------------------------
(* Specification SpecAi: streamAiChat (src/unnamed/part_001)               *)
(* against a service that may reject the call, deliver chunks with or      *)
(* without text, fail in the middle of the stream, or end it               *)

\* chunks of one stream
MaxChunks == 2

\* "I couldn't generate a response because the API key is missing."
Apology == "apology"

\* "(I encountered a hiccup while thinking. Please check your connection.)"
Hiccup == "hiccup"

\* linkedTitles: match[1].split('|')[0].trim().toLowerCase() of every match
\* of wikiLinkRegex in note.content
linkedTitles(note) ==
    LET caps == WikiLinkCaptures(note.content, 1)
    IN {TargetTitle(caps[i]) : i \in DOMAIN caps}

\* allNotes.filter(n => linkedTitles.includes(n.title.toLowerCase()))
linkedNotesContext(note, allNotes) ==
    SelectSeqBy(allNotes,
        {i \in DOMAIN allNotes : toLowerCase(allNotes[i].title) \in linkedTitles(note)})

\* a failure that is not caught: the promise rejects
FailureUncaught ==
    /\ aPhase' = "rejected"
    /\ UNCHANGED aChunks

\* catch (error) { console.error(...); onChunk("(I encountered a hiccup ...)") }
FailureCaught ==
    /\ aPhase' = "returned"
    /\ aChunks' = Append(aChunks, Hiccup)

AiInit ==
    /\ aNotes \in {ns \in LinkCorpora : ns # <<>>}
    /\ aKey \in BOOLEAN
    /\ aPhase = "idle"
    /\ aChunks = <<>>
    /\ aCalls = 0
    /\ aContext = <<>>
    /\ aFailed = FALSE
    /\ aBefore = <<>>
    /\ QuietButAi

\* streamAiChat(note, allNotes, history, userPrompt, onChunk) up to its first
\* await: without a key the apology and the return; with one, the prompt and
\* the call of generateContentStream
StartChat ==
    /\ aPhase = "idle"
    /\ aBefore' = aNotes
    /\ IF ~aKey
       THEN /\ aChunks' = <<Apology>>
            /\ aPhase' = "returned"
            /\ UNCHANGED <<aCalls, aContext>>
       ELSE /\ aContext' = linkedNotesContext(aNotes[1], aNotes)
            /\ aCalls' = aCalls + 1
            /\ aPhase' = "calling"
            /\ UNCHANGED aChunks
    /\ UNCHANGED <<aNotes, aKey, aFailed>>
    /\ UNCHANGED nonAiVars

\* generateContentStream resolves with a stream
CallResolves ==
    /\ aPhase = "calling"
    /\ aPhase' = "streaming"
    /\ UNCHANGED <<aNotes, aKey, aChunks, aCalls, aContext, aFailed, aBefore>>
    /\ UNCHANGED nonAiVars

\* generateContentStream rejects
CallRejects ==
    /\ aPhase = "calling"
    /\ aFailed' = TRUE
    /\ FailureCaught
    /\ UNCHANGED <<aNotes, aKey, aCalls, aContext, aBefore>>
    /\ UNCHANGED nonAiVars

\* for await (const chunk of result): a chunk, handed on when it has text
StreamChunk ==
    /\ aPhase = "streaming"
    /\ Len(aChunks) < MaxChunks
    /\ \E text \in {"", "t"} :
          aChunks' = IF text # "" THEN Append(aChunks, text) ELSE aChunks
    /\ UNCHANGED <<aNotes, aKey, aPhase, aCalls, aContext, aFailed, aBefore>>
    /\ UNCHANGED nonAiVars

\* the stream throws
StreamFails ==
    /\ aPhase = "streaming"
    /\ aFailed' = TRUE
    /\ FailureCaught
    /\ UNCHANGED <<aNotes, aKey, aCalls, aContext, aBefore>>
    /\ UNCHANGED nonAiVars

\* the stream ends
StreamEnds ==
    /\ aPhase = "streaming"
    /\ aPhase' = "returned"
    /\ UNCHANGED <<aNotes, aKey, aChunks, aCalls, aContext, aFailed, aBefore>>
    /\ UNCHANGED nonAiVars

AiNext == StartChat \/ CallResolves \/ CallRejects \/ StreamChunk \/ StreamFails \/ StreamEnds

SpecAi == AiInit /\ [][AiNext]_vars

-----------------------------------------------------------------------------
(* Specification SpecClick: handleClick of the editor (TiptapEditor.tsx)   *)
(* and handleWikiLinkClick with the confirm dialog (graphUtils.ts)         *)

\* notes the corpus may grow to
MaxClickNotes == 4

\* folderId of a note outside every folder (undefined)
NoFolderId == 0

\* activeNoteId when no note is active ("")
NoNoteId == 0

\* href.startsWith("wiki:") ; href.replace("wiki:", "")
ClickedTitle(href) ==
    IF href # <<>> /\ href[1] = "wiki:" THEN <<Tail(href)>> ELSE <<>>

\* notes.find(n => n.title === title): the comparison without toLowerCase
targetNoteExact(ns, title) ==
    LET hits == {i \in DOMAIN ns : ns[i].title = title}
    IN IF hits = {} THEN <<>>
       ELSE <<ns[CHOOSE i \in hits : \A j \in hits : i <= j]>>

\* notes.find(n => n.title.toLowerCase() === title.toLowerCase())
targetNote(ns, title) ==
    LET hits == {i \in DOMAIN ns : toLowerCase(ns[i].title) = toLowerCase(title)}
    IN IF hits = {} THEN <<>>
       ELSE <<ns[CHOOSE i \in hits : \A j \in hits : i <= j]>>

\* handleOpenNote(id) -> handleItemClick(id, undefined, "note"): the tab is
\* added when it is not open, and the note becomes the active note
openedTabs(open, id) ==
    IF \E i \in DOMAIN open : open[i] = id THEN open ELSE Append(open, id)

\* notes.find(n => n.id === activeNoteId)?.folderId
activeFolderId(ns, active) ==
    LET hits == {i \in DOMAIN ns : ns[i].id = active}
    IN IF hits = {} THEN NoFolderId
       ELSE ns[CHOOSE i \in hits : \A j \in hits : i <= j].folderId

\* the new note of the create action
newWikiNote(id, title, folderId) ==
    [id |-> id, title |-> title,
     content |-> <<"#", " ">> \o title \o <<"\n", "\n">>,
     folderId |-> folderId]

\* the create action (the Ctrl branch and createAction have the same body):
\* the folder of the active note is expanded, the note is put first and opened
createAction(title) ==
    LET targetFolderId == activeFolderId(kNotes, kActive)
        newNote == newWikiNote(kNextId, title, targetFolderId)
    IN /\ kFolders' = IF targetFolderId # NoFolderId
                      THEN [i \in DOMAIN kFolders |->
                               IF kFolders[i].id = targetFolderId
                               THEN [kFolders[i] EXCEPT !.collapsed = FALSE]
                               ELSE kFolders[i]]
                      ELSE kFolders
       /\ kNotes' = <<newNote>> \o kNotes
       /\ kOpen' = openedTabs(kOpen, newNote.id)
       /\ kActive' = newNote.id
       /\ kNextId' = kNextId + 1

ClickState(kind, title, isCtrl) ==
    <<[kind |-> kind, title |-> title, isCtrl |-> isCtrl, notes |-> kNotes,
       folders |-> kFolders, open |-> kOpen, active |-> kActive,
       modal |-> kModal, suppress |-> kSuppress]>>

ClickTitles == {<<"a">>, <<"A">>, <<"b">>, <<"a", "b">>}

ClickCorpora ==
    {<<[id |-> 1, title |-> <<"A">>, content |-> <<>>, folderId |-> 5]>>,
     <<[id |-> 1, title |-> <<"A">>, content |-> <<>>, folderId |-> NoFolderId],
       [id |-> 2, title |-> <<"a">>, content |-> <<>>, folderId |-> 5]>>,
     <<[id |-> 1, title |-> <<"b">>, content |-> <<>>, folderId |-> 5],
       [id |-> 2, title |-> <<"A">>, content |-> <<>>, folderId |-> NoFolderId]>>}

ClickInit ==
    /\ kNotes \in ClickCorpora
    /\ kFolders = <<[id |-> 5, collapsed |-> TRUE]>>
    /\ kOpen = <<1>>
    /\ kActive = 1
    /\ kModal = <<>>
    /\ kSuppress \in BOOLEAN
    /\ kNextId = 3
    /\ kLast = <<>>
    /\ QuietButClick

\* a click on a wiki-link: handleClick takes the title from the href and
\* calls handleWikiLinkClick(title, ctrlKey || metaKey)
ClickWikiLink(text, isCtrl) ==
    LET title == ClickedTitle(WikiHref(text))[1]
        target == targetNote(kNotes, title)
    IN /\ kModal = <<>>
       /\ Len(kNotes) < MaxClickNotes
       /\ kLast' = ClickState("click", title, isCtrl)
       /\ IF target # <<>>
          THEN /\ kOpen' = openedTabs(kOpen, target[1].id)
               /\ kActive' = target[1].id
               /\ UNCHANGED <<kNotes, kFolders, kModal, kNextId>>
          ELSE IF isCtrl \/ kSuppress
          THEN /\ createAction(title)
               /\ UNCHANGED kModal
          ELSE /\ kModal' = <<title>>
               /\ UNCHANGED <<kNotes, kFolders, kOpen, kActive, kNextId>>
       /\ UNCHANGED kSuppress
       /\ UNCHANGED nonClickVars

\* "Create" in the dialog: onConfirm runs the action and closes the dialog
ConfirmCreate(dontAsk) ==
    /\ kModal # <<>>
    /\ kLast' = ClickState("confirm", kModal[1], FALSE)
    /\ kSuppress' = (kSuppress \/ dontAsk)
    /\ createAction(kModal[1])
    /\ kModal' = <<>>
    /\ UNCHANGED nonClickVars

\* "Cancel", Escape or the backdrop: onClose closes the dialog
CancelCreate ==
    /\ kModal # <<>>
    /\ kLast' = ClickState("cancel", kModal[1], FALSE)
    /\ kModal' = <<>>
    /\ UNCHANGED <<kNotes, kFolders, kOpen, kActive, kSuppress, kNextId>>
    /\ UNCHANGED nonClickVars

\* handleCloseTab(e, id)
CloseTab(id) ==
    LET newTabs == SelectSeqBy(kOpen, {i \in DOMAIN kOpen : kOpen[i] # id})
        index == CHOOSE i \in DOMAIN kOpen : kOpen[i] = id
    IN /\ kModal = <<>>
       /\ \E i \in DOMAIN kOpen : kOpen[i] = id
       /\ kLast' = ClickState("close", <<>>, FALSE)
       /\ kOpen' = newTabs
       /\ kActive' = IF id # kActive THEN kActive
                     ELSE IF newTabs = <<>> THEN NoNoteId
                     ELSE newTabs[IF index - 1 > 1 THEN index - 1 ELSE 1]
       /\ UNCHANGED <<kNotes, kFolders, kModal, kSuppress, kNextId>>
       /\ UNCHANGED nonClickVars

ClickNext ==
    \/ \E text \in ClickTitles, isCtrl \in BOOLEAN : ClickWikiLink(text, isCtrl)
    \/ \E dontAsk \in BOOLEAN : ConfirmCreate(dontAsk)
    \/ CancelCreate
    \/ \E id \in 1..(MaxClickNotes + 3) : CloseTab(id)

SpecClick == ClickInit /\ [][ClickNext]_vars

-----------------------------------------------------------------------------
(* Specification SpecPair: the auto-closing pairs of DelayedMarkdown        *)
(* (src/components/TiptapEditor.tsx, addKeyboardShortcuts) and the text     *)
(* input that follows a key the shortcut leaves alone                       *)

\* keys typed in a row
MaxKeys == 2

Openers == {"(", "{", "[", "\"", "'"}

\* the two characters each shortcut inserts
PairOf(ch) ==
    CASE ch = "(" -> <<"(", ")">>
      [] ch = "{" -> <<"{", "}">>
      [] ch = "[" -> <<"[", "]">>
      [] ch = "\"" -> <<"\"", "\"">>
      [] ch = "'" -> <<"'", "'">>

TextBlock(type, text) == [type |-> type, text |-> text]

Selection(fb, fo, tb, to) == [fb |-> fb, fo |-> fo, tb |-> tb, to |-> to]

\* the position of block i in the document (before its opening token)
RECURSIVE BlockPos(_, _)
BlockPos(doc, i) ==
    IF i = 1 THEN 0 ELSE BlockPos(doc, i - 1) + Len(doc[i - 1].text) + 2

\* selection.from and selection.to as positions
SelFrom(doc, sel) == BlockPos(doc, sel.fb) + 1 + sel.fo
SelTo(doc, sel) == BlockPos(doc, sel.tb) + 1 + sel.to

\* editor.isActive(name) for a node type: the nodes between from and to of
\* that type cover the selection (isNodeActive)
isActive(doc, sel, name) ==
    LET from == SelFrom(doc, sel)
        to == SelTo(doc, sel)
        Lo(i) == IF from > BlockPos(doc, i) THEN from ELSE BlockPos(doc, i)
        Hi(i) == LET end == BlockPos(doc, i) + Len(doc[i].text) + 2
                 IN IF to < end THEN to ELSE end
        matched == {i \in sel.fb..sel.tb : doc[i].type = name}
        RECURSIVE Sum(_)
        Sum(S) == IF S = {} THEN 0
                  ELSE LET i == CHOOSE j \in S : TRUE
                       IN (Hi(i) - Lo(i)) + Sum(S \ {i})
    IN IF from = to THEN matched # {}
       ELSE Sum(matched) >= to - from

\* the text put in the place of the selection (tr.insertText(text, from, to)):
\* what lies between the two ends goes, the blocks of the two ends are joined
replaceSelection(doc, sel, text) ==
    LET joined == TextBlock(doc[sel.fb].type,
                      SubSeq(doc[sel.fb].text, 1, sel.fo) \o text
                          \o SubSeq(doc[sel.tb].text, sel.to + 1, Len(doc[sel.tb].text)))
    IN SubSeq(doc, 1, sel.fb - 1) \o <<joined>> \o SubSeq(doc, sel.tb + 1, Len(doc))

Cursor(b, o) == Selection(b, o, b, o)

\* the shortcut without setTextSelection: the cursor stays behind the pair
PairShortcutCursorBehind(doc, sel, ch) ==
    IF isActive(doc, sel, "codeBlock")
    THEN [doc |-> replaceSelection(doc, sel, PairOf(ch)),
          sel |-> Cursor(sel.fb, sel.fo + 2), consumed |-> TRUE]
    ELSE [doc |-> doc, sel |-> sel, consumed |-> FALSE]

\* "(": () => { if (this.editor.isActive("codeBlock")) { chain()
\* .insertContent("()").setTextSelection(state.selection.from + 1).run();
\* return true } return false }, and the same for the other four keys
PairShortcut(doc, sel, ch) ==
    IF isActive(doc, sel, "codeBlock")
    THEN [doc |-> replaceSelection(doc, sel, PairOf(ch)),
          sel |-> Cursor(sel.fb, sel.fo + 1), consumed |-> TRUE]
    ELSE [doc |-> doc, sel |-> sel, consumed |-> FALSE]

\* the text input of a key no binding has consumed
textInput(doc, sel, ch) ==
    [doc |-> replaceSelection(doc, sel, <<ch>>), sel |-> Cursor(sel.fb, sel.fo + 1)]

PairDocs ==
    {<<TextBlock(t1, x1), TextBlock(t2, x2)>> :
        t1 \in {"paragraph", "codeBlock"}, t2 \in {"paragraph", "codeBlock"},
        x1 \in {<<>>, <<"a", "b">>}, x2 \in {<<"c">>}}

\* the selections of a document, empty or not, in one block or across two
Selections(doc) ==
    {sel \in {Selection(fb, fo, tb, to) :
                 fb \in DOMAIN doc, tb \in DOMAIN doc, fo \in 0..2, to \in 0..2} :
        /\ sel.fo <= Len(doc[sel.fb].text)
        /\ sel.to <= Len(doc[sel.tb].text)
        /\ sel.fb < sel.tb \/ (sel.fb = sel.tb /\ sel.fo <= sel.to)}

PairInit ==
    /\ pDoc \in PairDocs
    /\ pSel \in Selections(pDoc)
    /\ pKeys = 0
    /\ pLast = <<>>
    /\ QuietButPair

\* a key with a character: the shortcut first, the text input when the
\* shortcut returns false
TypeKey(ch) ==
    /\ pKeys < MaxKeys
    /\ pKeys' = pKeys + 1
    /\ \E r \in {PairShortcut(pDoc, pSel, ch)} :
          /\ pLast' = <<[key |-> ch, doc |-> pDoc, sel |-> pSel,
                         consumed |-> r.consumed, left |-> r.doc]>>
          /\ IF r.consumed
             THEN pDoc' = r.doc /\ pSel' = r.sel
             ELSE \E t \in {textInput(pDoc, pSel, ch)} : pDoc' = t.doc /\ pSel' = t.sel
    /\ UNCHANGED nonPairVars

PairNext == \E ch \in Openers : TypeKey(ch)

SpecPair == PairInit /\ [][PairNext]_vars

-----------------------------------------------------------------------------
(* Specification SpecLoad: the load path alone, over lines that hold one    *)
(* wiki-link token and what may stand around it                             *)

\* the inner texts of the tokens
LoadTexts == {<<"T">>, <<"T", "|", "L">>, <<"a", " ", "b">>, <<"_", "e", "_">>}

\* what stands before the token
LoadLeads == {<<>>, <<"x", " ">>, <<"#", " ">>, <<"-", " ">>, <<"*", "c", "*", " ">>}

\* what stands behind it
LoadTails == {<<>>, <<" ", "y">>, <<"(", "u", ")">>}

LoadInputs == {pre \o Wiki(t) \o post : pre \in LoadLeads, t \in LoadTexts, post \in LoadTails}

LoadInit ==
    /\ StoreIdle
    /\ GraphIdle
    /\ SyncIdle
    /\ RestIdle
    /\ cvIn \in LoadInputs
    /\ cvDoc = <<>>
    /\ cvOut = <<>>
    /\ cvDoc2 = <<>>
    /\ cvOut2 = <<>>
    /\ cvStage = "input"

LoadNext == Load

SpecLoad == LoadInit /\ [][LoadNext]_vars

-----------------------------------------------------------------------------
(* Specification SpecChat: handleSendAiMessage and the chunks of its       *)
(* streams (src/utils/graphUtils.ts, App)                                  *)

\* calls of handleSendAiMessage per behaviour
MaxRequests == 2

\* a piece of text: what it says and the call whose stream produced it
\* (0: typed by the user or written by the application)
Piece(from, text) == [from |-> from, text |-> text]

ChatMessage(role, text) == [role |-> role, text |-> text]

\* the message handleToggleAiChat puts into an empty history
Greeting == ChatMessage("model", <<Piece(0, "Hi!")>>)

\* what the input field holds when the form is submitted
ChatInputs == {"q", " "}

\* the text of a chunk
ChunkTexts == {"x", "y"}

\* (chunk) => { setAiThinking(false); fullResponse += chunk;
\*   setChatHistory((prev) => last.role === "model" ? [...prev.slice(0, -1),
\*   { ...last, text: fullResponse }] : prev) }
onChunk(r, chunk) ==
    hHistory' = IF hHistory[Len(hHistory)].role = "model"
                THEN [hHistory EXCEPT ![Len(hHistory)].text = Append(hFull[r], chunk)]
                ELSE hHistory

\* handleSendAiMessage(msg) up to the await of streamAiChat
handleSendAiMessage(msg) ==
    IF ~hActive \/ msg \in {"", " "}
    THEN UNCHANGED chatVars
    ELSE /\ hHistory' = hHistory \o <<ChatMessage("user", <<Piece(0, msg)>>),
                                      ChatMessage("model", <<>>)>>
         /\ hOwner' = hOwner \o <<0, hSent + 1>>
         /\ hThinking' = TRUE
         /\ hSent' = hSent + 1
         /\ hPhase' = [hPhase EXCEPT ![hSent + 1] = "streaming"]
         /\ UNCHANGED <<hActive, hFull>>

ChatInit ==
    /\ hActive \in BOOLEAN
    /\ hHistory \in {<<>>, <<Greeting>>}
    /\ hOwner = [i \in DOMAIN hHistory |-> 0]
    /\ hThinking = FALSE
    /\ hFull = [r \in 1..MaxRequests |-> <<>>]
    /\ hPhase = [r \in 1..MaxRequests |-> "none"]
    /\ hSent = 0
    /\ QuietButChat

\* the form is submitted: the button is disabled while the input is blank or
\* aiThinking is true
SubmitChat(msg) ==
    /\ hSent < MaxRequests
    /\ msg \notin {"", " "}
    /\ ~hThinking
    /\ handleSendAiMessage(msg)
    /\ UNCHANGED nonChatVars

\* one of the quick actions, shown while the history has at most one message
QuickAction ==
    /\ hSent < MaxRequests
    /\ Len(hHistory) <= 1
    /\ handleSendAiMessage("Summarize this note")
    /\ UNCHANGED nonChatVars

\* the stream of call r hands a chunk to its callback
ChatChunk(r, text) ==
    /\ hPhase[r] = "streaming"
    /\ Len(hFull[r]) < MaxChunks
    /\ hThinking' = FALSE
    /\ hFull' = [hFull EXCEPT ![r] = Append(@, Piece(r, text))]
    /\ onChunk(r, Piece(r, text))
    /\ UNCHANGED <<hActive, hPhase, hSent, hOwner>>
    /\ UNCHANGED nonChatVars

\* streamAiChat of call r returns
ChatReturns(r) ==
    /\ hPhase[r] = "streaming"
    /\ hPhase' = [hPhase EXCEPT ![r] = "done"]
    /\ UNCHANGED <<hActive, hHistory, hThinking, hFull, hSent, hOwner>>
    /\ UNCHANGED nonChatVars

SubmitTheForm == \E msg \in ChatInputs : SubmitChat(msg)
AChunk == \E r \in 1..MaxRequests : \E text \in ChunkTexts : ChatChunk(r, text)
AReturn == \E r \in 1..MaxRequests : ChatReturns(r)

ChatNext == SubmitTheForm \/ QuickAction \/ AChunk \/ AReturn

SpecChat == ChatInit /\ [][ChatNext]_vars

-----------------------------------------------------------------------------
(* Specification SpecTabs: the tab bar under open, close, delete and       *)
(* delete-selected (src/utils/graphUtils.ts, App), over the variables of   *)
(* SpecClick                                                               *)

TabCorpora ==
    {<<[id |-> 1, title |-> <<"a">>, content |-> <<>>, folderId |-> NoFolderId],
       [id |-> 2, title |-> <<"b">>, content |-> <<>>, folderId |-> 5],
       [id |-> 3, title |-> <<"A">>, content |-> <<>>, folderId |-> 5]>>,
     <<[id |-> 1, title |-> <<"a">>, content |-> <<>>, folderId |-> NoFolderId],
       [id |-> 2, title |-> <<"b">>, content |-> <<>>, folderId |-> NoFolderId]>>}

TabsInit ==
    /\ kNotes \in TabCorpora
    /\ kFolders = <<[id |-> 5, collapsed |-> FALSE]>>
    /\ kOpen = <<>>
    /\ kActive = NoNoteId
    /\ kModal = <<>>
    /\ kSuppress = TRUE
    /\ kNextId = 6
    /\ kLast = <<>>
    /\ QuietButClick

\* handleItemClick(id, e, "note"), also reached through handleOpenNote
OpenTab(id) ==
    /\ \E i \in DOMAIN kNotes : kNotes[i].id = id
    /\ kLast' = ClickState("open", <<>>, FALSE)
    /\ kOpen' = openedTabs(kOpen, id)
    /\ kActive' = id
    /\ UNCHANGED <<kNotes, kFolders, kModal, kSuppress, kNextId>>
    /\ UNCHANGED nonClickVars

\* deleteAction of handleDeleteNote (confirmed, or confirmation suppressed)
DeleteOpenNote(id) ==
    /\ \E i \in DOMAIN kNotes : kNotes[i].id = id
    /\ kLast' = ClickState("deleteNote", <<>>, FALSE)
    /\ \E newNotes \in {SelectSeqBy(kNotes, {i \in DOMAIN kNotes : kNotes[i].id # id})} :
       \E remainingTabs \in {SelectSeqBy(kOpen, {i \in DOMAIN kOpen : kOpen[i] # id})} :
          /\ kNotes' = newNotes
          /\ kOpen' = remainingTabs
          /\ kActive' = IF kActive # id THEN kActive
                        ELSE IF Len(remainingTabs) > 0 THEN remainingTabs[Len(remainingTabs)]
                        ELSE IF Len(newNotes) > 0 THEN newNotes[1].id
                        ELSE NoNoteId
    /\ UNCHANGED <<kFolders, kModal, kSuppress, kNextId>>
    /\ UNCHANGED nonClickVars

\* deleteAction of handleDeleteSelected, ids = Array.from(selectedIds): the
\* notes and the folders; the tabs are looked at only when the active note
\* is one of the ids
DeleteSelectedTabs(ids) ==
    /\ ids # {}
    /\ kLast' = ClickState("deleteSelected", <<>>, FALSE)
    /\ kNotes' = SelectSeqBy(kNotes, {i \in DOMAIN kNotes :
                    kNotes[i].id \notin ids /\ kNotes[i].folderId \notin ids})
    /\ kFolders' = SelectSeqBy(kFolders, {i \in DOMAIN kFolders : kFolders[i].id \notin ids})
    /\ IF kActive \in ids
       THEN /\ kActive' = NoNoteId
            /\ kOpen' = SelectSeqBy(kOpen, {i \in DOMAIN kOpen : kOpen[i] \notin ids})
       ELSE UNCHANGED <<kActive, kOpen>>
    /\ UNCHANGED <<kModal, kSuppress, kNextId>>
    /\ UNCHANGED nonClickVars

OpenATab == \E id \in 1..3 : OpenTab(id)
CloseATab == \E id \in 1..3 : CloseTab(id)
DeleteAnOpenNote == \E id \in 1..3 : DeleteOpenNote(id)
DeleteTheSelectedTabs ==
    \E ids \in SUBSET ({kNotes[i].id : i \in DOMAIN kNotes}
                          \cup {kFolders[i].id : i \in DOMAIN kFolders}) :
        DeleteSelectedTabs(ids)

TabsNext == OpenATab \/ CloseATab \/ DeleteAnOpenNote \/ DeleteTheSelectedTabs

SpecTabs == TabsInit /\ [][TabsNext]_vars

-----------------------------------------------------------------------------
(* Specification SpecTitle: the title-suggestion effect of App             *)
(* (src/utils/graphUtils.ts) with rename and the title field.  The notes    *)
(* hold more than 20 characters; their contents are not part of the state.  *)

\* calls of suggestNoteTitle per behaviour
MaxSuggestions == 2

TitledNotes == 1..2

Untitled == "Untitled Note"

\* what suggestNoteTitle resolves to: a title, or "Untitled Note" without a
\* key, after an error and for an empty answer
SuggestedTitles == {"Suggested", Untitled}

\* what the user types as a title
UserTitles == {"Mine", " "}

\* title === "Untitled Note" || !title.trim()
NeedsTitle(title) == title = Untitled \/ title \in {"", " "}

\* the body of the effect for the state after a render: the timeout of the
\* last run is cleared, and a new one is set when the active note needs a
\* title
TitleEffect(titles, active, editing) ==
    IF active \in TitledNotes /\ NeedsTitle(titles[active])
    THEN <<[titles |-> titles, active |-> active, editing |-> editing]>>
    ELSE <<>>

\* handleUpdateNote(id, { title })
UpdateTitle(titles, id, title) ==
    [n \in TitledNotes |-> IF n = id THEN title ELSE titles[n]]

\* currentNote && (title === "Untitled Note" || !title.trim()) &&
\* editingId !== currentNote.id
Asks(c) == NeedsTitle(c.titles[c.active]) /\ c.editing # c.active

TitleInit ==
    /\ tTitles \in [TitledNotes -> {Untitled, "Mine"}]
    /\ tActive \in {0} \cup TitledNotes
    /\ tEditing = 0
    /\ tTimer = TitleEffect(tTitles, tActive, tEditing)
    /\ tFlight = {}
    /\ tAsked = 0
    /\ tApplied = <<>>
    /\ QuietButTitle

\* a note is opened
ActivateNote(id) ==
    /\ id # tActive
    /\ tActive' = id
    /\ tTimer' = TitleEffect(tTitles, id, tEditing)
    /\ UNCHANGED <<tTitles, tEditing, tFlight, tAsked, tApplied>>
    /\ UNCHANGED nonTitleVars

\* "Rename" in the context menu: setEditingId(targetId)
StartRename(id) ==
    /\ tEditing # id
    /\ tEditing' = id
    /\ tTimer' = TitleEffect(tTitles, tActive, id)
    /\ UNCHANGED <<tTitles, tActive, tFlight, tAsked, tApplied>>
    /\ UNCHANGED nonTitleVars

\* handleRenameItem(id, newName) for a note
RenameItem(id, newName) ==
    /\ tEditing = id
    /\ tEditing' = 0
    /\ tTitles' = IF newName \in {"", " "} THEN tTitles
                  ELSE UpdateTitle(tTitles, id, newName)
    /\ tTimer' = TitleEffect(tTitles', tActive, 0)
    /\ UNCHANGED <<tActive, tFlight, tAsked, tApplied>>
    /\ UNCHANGED nonTitleVars

\* onTitleChange of the editor: handleUpdateNote(activeNote.id, { title })
ChangeTitle(newTitle) ==
    /\ tActive \in TitledNotes
    /\ newTitle # tTitles[tActive]
    /\ tTitles' = UpdateTitle(tTitles, tActive, newTitle)
    /\ tTimer' = TitleEffect(tTitles', tActive, tEditing)
    /\ UNCHANGED <<tActive, tEditing, tFlight, tAsked, tApplied>>
    /\ UNCHANGED nonTitleVars

\* the timeout fires after 5000 ms: the callback up to its await
TimerFires ==
    /\ tTimer # <<>>
    /\ tAsked < MaxSuggestions
    /\ tTimer' = <<>>
    /\ IF Asks(tTimer[1])
       THEN /\ tFlight' = tFlight \cup {[sentFor |-> tTimer[1].active,
                                         applyTo |-> tTimer[1].active,
                                         call |-> tAsked + 1]}
            /\ tAsked' = tAsked + 1
       ELSE UNCHANGED <<tFlight, tAsked>>
    /\ UNCHANGED <<tTitles, tActive, tEditing, tApplied>>
    /\ UNCHANGED nonTitleVars

\* suggestNoteTitle resolves: if (newTitle && newTitle !== "Untitled Note")
\* handleUpdateNote(activeNoteId, { title: newTitle })
SuggestionArrives(r, newTitle) ==
    /\ r \in tFlight
    /\ tFlight' = tFlight \ {r}
    /\ IF newTitle # "" /\ newTitle # Untitled
       THEN /\ tTitles' = UpdateTitle(tTitles, r.applyTo, newTitle)
            /\ tApplied' = <<[note |-> r.applyTo, sentFor |-> r.sentFor,
                              before |-> tTitles[r.applyTo], editing |-> tEditing]>>
            /\ tTimer' = TitleEffect(tTitles', tActive, tEditing)
       ELSE UNCHANGED <<tTitles, tApplied, tTimer>>
    /\ UNCHANGED <<tActive, tEditing, tAsked>>
    /\ UNCHANGED nonTitleVars

ActivateANote == \E id \in TitledNotes : ActivateNote(id)
StartARename == \E id \in TitledNotes : StartRename(id)
SubmitARename == \E id \in TitledNotes, newName \in UserTitles : RenameItem(id, newName)
EditTitleField == \E newTitle \in UserTitles : ChangeTitle(newTitle)
ASuggestionArrives == \E r \in tFlight, newTitle \in SuggestedTitles : SuggestionArrives(r, newTitle)

TitleNext ==
    \/ ActivateANote
    \/ StartARename
    \/ SubmitARename
    \/ EditTitleField
    \/ TimerFires
    \/ ASuggestionArrives

SpecTitle == TitleInit /\ [][TitleNext]_vars

-----------------------------------------------------------------------------
(* C1                                                                      *)

NoFolderCycle ==
    \A id \in FolderIds(folders) : id \notin AncestorsOf(folders, id, Len(folders) + 1)

-----------------------------------------------------------------------------
(* C7 - C10: generateGraphData                                             *)

NodeIds(g) == {g.nodes[i].id : i \in DOMAIN g.nodes}

\* C7: the links returned by generateGraphData hold no two entries with the
\* same (source, target) pair, and every link has value 1 however often the
\* source note links to the target.
C7_LinksUniqueWithValueOne ==
    gDone =>
        /\ \A i, j \in DOMAIN gData.links :
              (gData.links[i].source = gData.links[j].source
                 /\ gData.links[i].target = gData.links[j].target) => i = j
        /\ \A i \in DOMAIN gData.links : gData.links[i].value = 1

\* a note that links twice to the same other note, and the graph was computed
C7_Witness ==
    /\ gDone
    /\ Len(gData.links) >= 1
    /\ Len(AllLinks(gNotes, 1)) > Len(gData.links)

\* C8: for every corpus, also one in which several notes share a title,
\* generateGraphData emits no link whose source and target are the same note.
C8_NoSelfLink ==
    gDone => \A i \in DOMAIN gData.links : gData.links[i].source # gData.links[i].target

\* two notes share a title, and the one the title resolves to links to it
C8_Witness ==
    /\ gDone
    /\ \E i, j \in DOMAIN gNotes :
          /\ i # j
          /\ toLowerCase(gNotes[i].title) = toLowerCase(gNotes[j].title)
          /\ \E k \in DOMAIN WikiLinkCaptures(gNotes[j].content, 1) :
                LET t == TargetTitle(WikiLinkCaptures(gNotes[j].content, 1)[k])
                IN t = toLowerCase(gNotes[j].title) /\ TitleMapGet(gNotes, t) = gNotes[j].id

\* the [[...]] occurrences of a note's content and the target of each, the
\* part before the first | without its surrounding blanks
OccurrenceTargets(content) ==
    LET caps == WikiLinkCaptures(content, 1)
    IN {trim(SplitFirst(caps[k], "|")) : k \in DOMAIN caps}

\* C9: for every note S and every [[target]] or [[target|label]] occurrence
\* in S.content whose target equals, case-insensitively, the title of some
\* other note T, generateGraphData emits the edge S -> T; occurrences whose
\* target matches no note title produce no edge, and the endpoints of every
\* emitted edge are ids of emitted nodes.
C9_EveryResolvableOccurrenceIsAnEdge ==
    gDone =>
        /\ \A s, t \in DOMAIN gNotes :
              (s # t /\ \E tg \in OccurrenceTargets(gNotes[s].content) :
                            toLowerCase(tg) = toLowerCase(gNotes[t].title))
              => \E l \in DOMAIN gData.links :
                    /\ gData.links[l].source = gNotes[s].id
                    /\ gData.links[l].target = gNotes[t].id
        /\ \A l \in DOMAIN gData.links :
              /\ gData.links[l].source \in NodeIds(gData)
              /\ gData.links[l].target \in NodeIds(gData)
              /\ \E s, t \in DOMAIN gNotes :
                    /\ gNotes[s].id = gData.links[l].source
                    /\ gNotes[t].id = gData.links[l].target
                    /\ \E tg \in OccurrenceTargets(gNotes[s].content) :
                          toLowerCase(tg) = toLowerCase(gNotes[t].title)

\* position of an existing folder in the folder list, from 0
FolderIndex(fs, id) == (CHOOSE i \in DOMAIN fs : fs[i].id = id) - 1

InExistingFolder(n) == n.folderId # NoId /\ n.folderId \in FolderIds(gFolders)

\* C10: generateGraphData emits exactly one node per note; a note without a
\* folder has group 1; a note whose folderId names an existing folder has that
\* folder's group (its position in the folder list plus 2, never 1); two notes
\* share a group of value 2 or more exactly when they are in the same folder.
C10_OneNodePerNote_GroupByFolder ==
    gDone =>
        /\ Len(gData.nodes) = Len(gNotes)
        /\ \A i \in DOMAIN gNotes :
              /\ gData.nodes[i].id = gNotes[i].id
              /\ gData.nodes[i].title = gNotes[i].title
              /\ gNotes[i].folderId = NoId => gData.nodes[i].group = 1
              /\ InExistingFolder(gNotes[i]) =>
                    /\ gData.nodes[i].group = FolderIndex(gFolders, gNotes[i].folderId) + 2
                    /\ gData.nodes[i].group # 1
        /\ \A i, j \in DOMAIN gNotes :
              (gData.nodes[i].group = gData.nodes[j].group /\ gData.nodes[i].group >= 2)
              <=> (InExistingFolder(gNotes[i]) /\ gNotes[i].folderId = gNotes[j].folderId)

\* two notes in the same existing folder, which is not the first of the list
C10_Witness ==
    /\ gDone
    /\ \E i, j \in DOMAIN gNotes :
          /\ i # j
          /\ InExistingFolder(gNotes[i])
          /\ gNotes[i].folderId = gNotes[j].folderId
          /\ FolderIndex(gFolders, gNotes[i].folderId) = 1

-----------------------------------------------------------------------------
(* C2, C3 : the sync effect                                                *)

\* C2: synchronization drift never causes data loss: while a reset was
\* skipped although the markdown says something else than the document, the
\* stored content is the authoritative markdown, and once a key has been
\* typed into that document the stored content is not the serialization of
\* the stale document.
C2_DriftLosesNoData ==
    sDrift.pending =>
        /\ ~sDrift.edited => sContent = sDrift.auth
        /\ sDrift.edited => sContent # sDrift.staleOut

\* the decision rule of the sync effect, for the document it met and the
\* incoming markdown
RuleSaysReset ==
    \/ sEff.docSeen = EmptyDoc
    \/ Abs(StrLen(turndown(sEff.docSeen)) - StrLen(sContent)) > 5

\* C3: whenever the incoming markdown of the open editor has changed, the
\* document is the parse of the incoming markdown if the document was empty
\* or the lengths of its serialization and of the incoming markdown differ by
\* more than 5, and it is the document as it was in every other case.
C3_ResetIffEmptyOrBeyondTolerance ==
    (sOpen /\ sEff.ran) =>
        /\ RuleSaysReset => sDoc = ParseMarkdown(sContent)
        /\ ~RuleSaysReset => sDoc = sEff.docSeen

\* a rename has moved the markdown more than 5 characters away from a
\* document that was not empty, and the document was replaced
C3_Witness ==
    /\ sOpen
    /\ sEff.ran
    /\ sEff.docSeen # EmptyDoc
    /\ RuleSaysReset
    /\ sDoc # sEff.docSeen

\* a rename has moved the markdown exactly 5 characters away and the document
\* was left as it was, behind the markdown
C3_WitnessAtTolerance ==
    /\ sOpen
    /\ sEff.ran
    /\ sEff.docSeen # EmptyDoc
    /\ Abs(StrLen(turndown(sEff.docSeen)) - StrLen(sContent)) = 5
    /\ sDoc = sEff.docSeen
    /\ sDoc # ParseMarkdown(sContent)

-----------------------------------------------------------------------------
(* C4, C5, C6 : load and save                                              *)

Serialized == cvStage \in {"serialized", "reloaded", "reserialized"}

\* C4: serialization is idempotent after one normalization pass: the markdown
\* a loaded document is serialized to, parsed and serialized again, is the
\* same markdown.
C4_SerializeIsIdempotent == cvStage = "reserialized" => cvOut2 = cvOut

\* C5: wiki-links round-trip exactly: the [[...]] tokens of the serialized
\* document are the tokens of the loaded markdown, character for character
\* and in the same number, and the sentence
\* "See [[Project Alpha|Alpha]] for details." is reproduced as it is.
C5_WikiLinkRoundTrip ==
    Serialized =>
        /\ WikiLinkCaptures(cvOut, 1) = WikiLinkCaptures(cvIn, 1)
        /\ cvIn = SeeProjectAlpha => cvOut = SeeProjectAlpha

PlainText(s) == [i \in DOMAIN s |-> TextNode(s[i], FALSE, FALSE, FALSE, <<>>)]

\* "- [ ] a"
UncheckedItem == <<"-", " ", "[", " ", "]", " ", "a">>

\* C6: "- [x] Buy milk" loads as exactly one checked task item with the text
\* "Buy milk" and is serialized back as the same line; the unchecked item
\* "- [ ] a" is reproduced as well.
C6_TaskItemRoundTrip ==
    /\ (cvIn = BuyMilk /\ cvStage # "input") =>
          cvDoc = <<Block("taskItem", 0, TRUE, PlainText(SubSeq(BuyMilk, 7, Len(BuyMilk))))>>
    /\ (cvIn \in {BuyMilk, UncheckedItem} /\ Serialized) => cvOut = cvIn

-----------------------------------------------------------------------------
(* C11 : getBacklinks                                                      *)

\* the notes of the corpus whose lower-cased content holds one of the two
\* needles built from the lower-cased title t
HoldsNeedle(n, t) ==
    \E k \in 1..Len(n.content) :
        \/ OccursAt(toLowerCase(n.content), <<"[", "[">> \o t \o <<"]", "]">>, k)
        \/ OccursAt(toLowerCase(n.content), <<"[", "[">> \o t \o <<"|">>, k)

\* C11: getBacklinks(T) returns exactly the notes other than T whose
\* lower-cased content contains "[[" + lower-cased title of T + "]]" or
\* "[[" + lower-cased title of T + "|"; T itself is never returned, an id
\* that matches no note yields the empty list, and the corpus is not modified.
C11_BacklinksExact ==
    bDone =>
        /\ bNotes = bBefore
        /\ \A i \in DOMAIN bResult : bResult[i].id # bTarget
        /\ IF \A i \in DOMAIN bNotes : bNotes[i].id # bTarget
           THEN bResult = <<>>
           ELSE LET T == CHOOSE n \in Range(bNotes) : n.id = bTarget
                    expected == {n \in Range(bNotes) :
                                    n.id # bTarget /\ HoldsNeedle(n, toLowerCase(T.title))}
                IN  /\ Range(bResult) = expected
                    /\ Len(bResult) = Cardinality(expected)

\* a note that links to itself and is linked from another note: only the
\* other note is returned
C11_Witness ==
    /\ bDone
    /\ \E i \in DOMAIN bNotes :
        /\ bNotes[i].id = bTarget
        /\ HoldsNeedle(bNotes[i], toLowerCase(bNotes[i].title))
    /\ Len(bResult) = 1

\* an id of no note
C11_WitnessUnknown ==
    /\ bDone
    /\ bNotes # <<>>
    /\ \A i \in DOMAIN bNotes : bNotes[i].id # bTarget
    /\ bResult = <<>>

-----------------------------------------------------------------------------
(* C12, C13, C18, C19, C20 : the Enter handler                             *)

\* the state the last Enter met
Met == eBefore[1]
MetBlock == Met.doc[Met.cur]
MetText == textContent(MetBlock)
Above == SubSeq(Met.doc, 1, Met.cur - 1)
Below == SubSeq(Met.doc, Met.cur + 1, Len(Met.doc))

\* a top-level paragraph whose text is one to six "#", a blank and "T"
MetHeadingLine ==
    /\ eResult # "none"
    /\ MetBlock.type = "paragraph"
    /\ MetText \in HeadingLines

\* C12: Enter in a paragraph whose text is "# Title" replaces that paragraph
\* with a level-1 heading whose inline text is exactly "Title", and the cursor
\* is then in a new empty paragraph directly below the heading; the same holds
\* for the levels 2 to 6.
C12_HeadingOnEnter ==
    MetHeadingLine =>
        /\ eDoc = Above \o <<Block("heading", Len(MetText) - 2, FALSE, Str(<<"T">>)),
                             EmptyParagraph>> \o Below
        /\ eCur = Met.cur + 1

\* what the handler leaves instead: the emptied paragraph, the heading, a
\* paragraph holding the appended blank, and the new paragraph
C12_HeadingAsBuilt ==
    MetHeadingLine =>
        /\ eDoc = Above \o <<EmptyParagraph,
                             Block("heading", Len(MetText) - 2, FALSE, Str(<<"T">>)),
                             Block("paragraph", 0, FALSE, Str(<<" ">>)),
                             EmptyParagraph>> \o Below
        /\ eCur = Met.cur + 3
        /\ eResult = "handled"

\* C13: the Enter handler never drops typed content and never lets an
\* exception escape: for every paragraph text that reaches the parse step, if
\* the parse yields empty output the literal text is kept in the document,
\* and the document is never left with the line deleted and nothing inserted
\* in its place.
C13_NoLossNoEscape ==
    (eResult # "none" /\ ePath = "parse") =>
        /\ eResult # "threw"
        /\ LineHtml(MetText) = <<>> =>
               \E i \in DOMAIN eDoc : textContent(eDoc[i]) = MetText
        /\ \E i \in Met.cur..Len(eDoc) : eDoc[i].content # <<>>

\* the two ways it fails: the parse of a link reference definition is empty
\* and the line is gone; a line that is still markdown after the parse makes
\* commands.enter() call the handler without end
C13_EmptyParseDropsLine ==
    /\ ePath = "parse"
    /\ LineHtml(MetText) = <<>>
    /\ eResult = "handled"
    /\ \A i \in DOMAIN eDoc : eDoc[i].content = <<>> \/ i < Met.cur

C13_HandlerThrows ==
    /\ ePath = "parse"
    /\ eResult = "threw"

\* Enter met a block of one of the kinds that are left to the default keys
MetOtherBlock ==
    /\ eResult # "none"
    /\ MetBlock.type \in {"codeBlock", "heading", "listItem", "taskItem", "blockquote"}

\* C18: when the cursor's block is a code block, a heading, a list item, a
\* task item or a blockquote, the Enter handler changes nothing in the
\* document and reports the key as unhandled, so that the default Enter
\* runs; Enter in a code block always inserts a literal newline.
C18_OnlyPlainParagraphs ==
    MetOtherBlock =>
        /\ eResult = "unhandled"
        /\ eLeft = Met.doc
        /\ MetBlock.type = "codeBlock" =>
               /\ eDoc = [Met.doc EXCEPT ![Met.cur].content = @ \o <<Plain("\n")>>]
               /\ eCur = Met.cur

\* what holds: code blocks and headings are left to the default keys
C18_CodeAndHeadingUnhandled ==
    (eResult # "none" /\ MetBlock.type \in {"codeBlock", "heading"}) =>
        /\ eResult = "unhandled"
        /\ eLeft = Met.doc

\* the paragraph of a list item, a task item or a blockquote is reinterpreted
C18_ItemReinterpreted ==
    /\ MetOtherBlock
    /\ MetBlock.type \in {"listItem", "taskItem", "blockquote"}
    /\ ePath = "parse"
    /\ eResult = "handled"
    /\ eLeft # Met.doc

\* and so is one whose text stays markdown: the handler throws
C18_ItemThrows ==
    /\ MetOtherBlock
    /\ MetBlock.type = "listItem"
    /\ eResult = "threw"

\* Enter after two newlines at the end of a code block leaves the block
C18_CodeBlockExit ==
    /\ MetOtherBlock
    /\ MetBlock.type = "codeBlock"
    /\ Len(eDoc) = Len(Met.doc) + 1
    /\ eDoc[eCur].type = "paragraph"

\* Enter met a top-level paragraph whose text matches the task pattern
MetTaskLine ==
    /\ eResult # "none"
    /\ MetBlock.type = "paragraph"
    /\ taskMatch(MetText)

\* C19: Enter in a paragraph whose text is "- [ ] text", "- [x] text" or
\* "- [X] text" (text possibly empty) replaces the line with one task item,
\* checked exactly when the flag is x or X, whose inline content is exactly
\* the captured text; the line does not go through the markdown parse step;
\* the cursor is on a new line after the item.
C19_TaskOnEnter ==
    MetTaskLine =>
        /\ eResult = "handled"
        /\ ePath = "task"
        /\ Len(eDoc) = Len(Met.doc) + 1
        /\ eDoc[Met.cur] = Block("taskItem", 0, isChecked(MetText), Str(TaskContent(MetText)))
        /\ eCur = Met.cur + 1
        /\ eDoc[eCur].content = <<>>
        /\ SubSeq(eDoc, 1, Met.cur - 1) = Above
        /\ SubSeq(eDoc, Met.cur + 2, Len(eDoc)) = Below

\* what holds: the claim for a captured text that is not empty and has none
\* of the characters of markdown or HTML
C19_PlainTaskOnEnter ==
    (MetTaskLine /\ TaskContent(MetText) = <<"a">>) =>
        /\ eResult = "handled"
        /\ ePath = "task"
        /\ eDoc = Above \o <<Block("taskItem", 0, isChecked(MetText), Str(<<"a">>)),
                             Block("taskItem", 0, FALSE, <<>>)>> \o Below
        /\ eCur = Met.cur + 1

\* with an empty captured text no task item is left: the empty item is
\* lifted back to a paragraph by the Enter that follows
C19_EmptyTaskLifted ==
    /\ MetTaskLine
    /\ TaskContent(MetText) = <<>>
    /\ eResult = "handled"
    /\ eDoc = Above \o <<EmptyParagraph>> \o Below
    /\ eCur = Met.cur

\* a captured text with a character of markdown makes the Enter that follows
\* take the parse branch, without end
C19_TaskThrows ==
    /\ MetTaskLine
    /\ eResult = "threw"

\* Enter met a top-level paragraph whose text is a fence
MetFenceLine ==
    /\ eResult # "none"
    /\ MetBlock.type = "paragraph"
    /\ codeBlockMatch(MetText)

\* C20: Enter in a paragraph whose whole text is three backticks and zero or
\* more word characters replaces the line with an empty code block whose
\* language is the captured word (possibly empty), leaves the cursor in that
\* code block, and adds no line break and no paragraph.
C20_FenceOnEnter ==
    MetFenceLine =>
        /\ eResult = "handled"
        /\ ePath = "fence"
        /\ eDoc = Above \o <<CodeBlock(CodeLanguage(MetText), <<>>)>> \o Below
        /\ eCur = Met.cur

\* a fence with the language "js", below another paragraph
C20_Witness ==
    /\ MetFenceLine
    /\ CodeLanguage(MetText) = <<"j", "s">>
    /\ Met.cur = 2
    /\ eDoc[2] = CodeBlock(<<"j", "s">>, <<>>)

\* a fence without a language
C20_WitnessNoLanguage ==
    /\ MetFenceLine
    /\ CodeLanguage(MetText) = <<>>
    /\ eDoc[eCur].type = "codeBlock"

-----------------------------------------------------------------------------
(* C14 : input rule and paste rule                                         *)

\* the target is a context around one token [[t]], t not empty and without "]"
TokenOf(pre, t, post) ==
    /\ rTarget = pre \o Wiki(t) \o post
    /\ t # <<>>
    /\ \A i \in DOMAIN t : t[i] # "]"

\* the entity of [[t]]: the text t under the wiki-link mark with href "wiki:" + t
WikiEntity(t) == [i \in DOMAIN t |-> TextNode(t[i], FALSE, FALSE, TRUE, WikiHref(t))]

BothDone == rPasteDone /\ rPos = Len(rTarget)

C14_NestedBracketsDiffer ==
    /\ BothDone
    /\ rTarget = Wiki(Wiki(<<"a">>))
    /\ rTyped # rPasted

-----------------------------------------------------------------------------
(* C15 : debounced persistence                                             *)

\* every change sets "saving" and restarts the timer; a write is made only a
\* full idle interval after the last change, at most once, and stores the
\* corpus of the last change; a change is possible while "saving"
C15_Debounced ==
    /\ vStatus = "saving" <=> vTimer # <<>>
    /\ IF vTimer = <<>> THEN TRUE
       ELSE /\ vTimer[1].snapshot = vCorpus
            /\ vTimer[1].left = IdleInterval - vSince
    /\ vWrites <= 1
    /\ vAllWrites <= Changes(vCorpus) + 1
    /\ vWrites = 1 <=> vStatus = "saved"
    /\ vStatus = "saved" => vStored = vCorpus /\ vWroteAt = IdleInterval
    /\ (vStatus = "saving" /\ Changes(vCorpus) < MaxChanges) => ENABLED ChangeNotes

C15_Saved == vStatus = "saved" /\ vStored = vCorpus

-----------------------------------------------------------------------------
(* C16 : streamAiChat                                                      *)

\* C16: streamAiChat never throws or rejects: without a credential it
\* delivers exactly one static apology chunk to onChunk and returns without
\* calling the service; when the service call or the stream fails at any
\* point it delivers one short error chunk and returns; in neither case is
\* any note's content modified.
C16_ChatNeverThrows ==
    /\ aPhase # "rejected"
    /\ (aPhase # "idle" /\ ~aKey) =>
          /\ aPhase = "returned"
          /\ aChunks = <<Apology>>
          /\ aCalls = 0
    /\ aFailed =>
          /\ aPhase = "returned"
          /\ aChunks # <<>>
          /\ aChunks[Len(aChunks)] = Hiccup
          /\ Cardinality({i \in DOMAIN aChunks : aChunks[i] = Hiccup}) = 1
    /\ aPhase # "idle" => aNotes = aBefore

\* the stream fails after a chunk of text was handed on
C16_Witness ==
    /\ aFailed
    /\ aPhase = "returned"
    /\ aChunks = <<"t", Hiccup>>

\* no credential
C16_WitnessNoKey ==
    /\ ~aKey
    /\ aPhase = "returned"
    /\ aChunks = <<Apology>>

-----------------------------------------------------------------------------
(* C17 : clicks on wiki-links                                              *)

Clicked == kLast[1]

TitleExists(ns, title) ==
    \E i \in DOMAIN ns : toLowerCase(ns[i].title) = toLowerCase(title)

\* the first note of ns with that title, case-insensitively
FirstWithTitle(ns, title) ==
    ns[CHOOSE i \in DOMAIN ns :
          /\ toLowerCase(ns[i].title) = toLowerCase(title)
          /\ \A j \in 1..(i - 1) : toLowerCase(ns[j].title) # toLowerCase(title)]

IsOpenTab(id) == \E i \in DOMAIN kOpen : kOpen[i] = id

\* the corpus is the one the event met with one new note, titled title, first
Created(title) ==
    /\ Len(kNotes) = Len(Clicked.notes) + 1
    /\ Tail(kNotes) = Clicked.notes
    /\ kNotes[1].title = title
    /\ \A i \in DOMAIN Clicked.notes : Clicked.notes[i].id # kNotes[1].id
    /\ kActive = kNotes[1].id
    /\ IsOpenTab(kNotes[1].id)

C17_WitnessCancel ==
    /\ kLast # <<>>
    /\ Clicked.kind = "cancel"

\* the offer was confirmed with "do not ask again"
C17_WitnessConfirm ==
    /\ kLast # <<>>
    /\ Clicked.kind = "confirm"
    /\ kSuppress
    /\ ~Clicked.suppress

-----------------------------------------------------------------------------
(* C21 : the fast-path guard of the Enter handler                          *)

\* Enter met a top-level paragraph that is not empty and is neither a task
\* line nor a fence
MetGuardLine ==
    /\ eResult # "none"
    /\ MetBlock.type = "paragraph"
    /\ MetText # <<>>
    /\ ~taskMatch(MetText)
    /\ ~codeBlockMatch(MetText)

InlineTrigger(text) ==
    \E i \in DOMAIN text : text[i] \in {"*", "_", "~", Grave, "!", "[", "]"}

\* a trigger as the claim words it: "#", "-", a digit followed by "." or ">"
\* at the start of the line, or one of * _ ~ ` ! [ ] anywhere
TriggerAtStart(text) ==
    \/ InlineTrigger(text)
    \/ text[1] \in {"#", "-", ">"}
    \/ Len(text) >= 2 /\ text[1] \in {"0", "1", "2", "3", "4", "5", "6", "7", "8", "9"}
                      /\ text[2] = "."

\* a trigger as the handler tests it: one to six "#", "-", digits and "." or
\* ">" at the start of the line and white space behind it, or one of
\* * _ ~ ` ! [ ] anywhere
TriggerBeforeBlank(text) ==
    \/ InlineTrigger(text)
    \/ \E n \in 1..(Len(text) - 1) :
          /\ text[n + 1] \in {" ", "\n"}
          /\ \/ n <= 6 /\ \A i \in 1..n : text[i] = "#"
             \/ n = 1 /\ text[1] \in {"-", ">"}
             \/ /\ n >= 2
                /\ text[n] = "."
                /\ \A i \in 1..(n - 1) :
                      text[i] \in {"0", "1", "2", "3", "4", "5", "6", "7", "8", "9"}

\* no delete and no reparse: the key is left to the default Enter, which
\* appends an empty paragraph below the paragraph and changes nothing else
Skipped ==
    /\ eResult = "unhandled"
    /\ eLeft = Met.doc
    /\ eDoc = Above \o <<MetBlock, EmptyParagraph>> \o Below
    /\ eCur = Met.cur + 1

C21_WitnessParsed ==
    /\ MetGuardLine
    /\ MetText = <<"-", " ", "a">>
    /\ ePath = "parse"
    /\ eResult = "handled"

-----------------------------------------------------------------------------
(* C22 : auto-closing pairs                                                *)

Typed == pLast[1]

\* the key met a selection, empty or not, that lies in one block
TypedInOneBlock ==
    /\ pLast # <<>>
    /\ Typed.key \in Openers
    /\ Typed.sel.fb = Typed.sel.tb

Closer(ch) ==
    CASE ch = "(" -> ")"
      [] ch = "{" -> "}"
      [] ch = "[" -> "]"
      [] OTHER -> ch

\* C22: an opening (, {, [, " or ' inserts the pair and leaves the cursor
\* between its two characters if and only if the cursor is in a code block;
\* outside a code block the shortcut inserts nothing and does not consume
\* the key.  For an empty selection and for one inside the code block.
C22_PairsOnlyInCodeBlock ==
    TypedInOneBlock =>
        LET b == Typed.sel.fb
            was == Typed.doc[b].text
            now == pDoc[b].text
        IN /\ Typed.consumed <=> Typed.doc[b].type = "codeBlock"
           /\ Typed.consumed =>
                 /\ pSel = Selection(b, Typed.sel.fo + 1, b, Typed.sel.fo + 1)
                 /\ now[pSel.fo] = Typed.key
                 /\ now[pSel.fo + 1] = Closer(Typed.key)
                 /\ SubSeq(now, 1, Typed.sel.fo) = SubSeq(was, 1, Typed.sel.fo)
                 /\ SubSeq(now, Typed.sel.fo + 3, Len(now))
                        = SubSeq(was, Typed.sel.to + 1, Len(was))
                 /\ \A i \in DOMAIN pDoc : i # b => pDoc[i] = Typed.doc[i]
                 /\ pDoc[b].type = "codeBlock"
           /\ ~Typed.consumed => Typed.left = Typed.doc

\* "[" typed over a selection inside a code block
C22_Witness ==
    /\ TypedInOneBlock
    /\ Typed.key = "["
    /\ Typed.consumed
    /\ Typed.sel.fo < Typed.sel.to
    /\ pDoc[Typed.sel.fb].text = <<"a", "[", "]">>

\* "(" typed in a paragraph
C22_WitnessOutside ==
    /\ TypedInOneBlock
    /\ Typed.key = "("
    /\ ~Typed.consumed
    /\ pDoc[Typed.sel.fb] = TextBlock("paragraph", <<"(">>)

-----------------------------------------------------------------------------
(* C23, C24 : what the wiki-link rules recognize                           *)

\* the text behind the first "|" of t, t itself when it has none
LabelOf(t) ==
    IF \E i \in DOMAIN t : t[i] = "|"
    THEN SubSeq(t, Len(SplitFirst(t, "|")) + 2, Len(t))
    ELSE t

\* the entity of a token split on its first "|": the label under the
\* wiki-link mark whose href is "wiki:" + target
SplitEntity(t) ==
    [i \in DOMAIN LabelOf(t) |->
        TextNode(LabelOf(t)[i], FALSE, FALSE, TRUE, WikiHref(SplitFirst(t, "|")))]

\* C23: for every recognized token [[Target|Label]] the link target of the
\* entity is Target alone and its label is Label; for [[Target]] the target
\* is Target and there is no label; in the typed rule and the paste rule.
C23_TargetAndLabel ==
    BothDone =>
        \A post \in {<<>>, <<"x">>}, t \in LinkTexts :
            (TokenOf(<<"x">>, t, post) /\ SplitFirst(t, "|") # <<>> /\ LabelOf(t) # <<>>) =>
                /\ rTyped = Str(<<"x">>) \o SplitEntity(t) \o Str(post)
                /\ rPasted = Str(<<"x">>) \o SplitEntity(t) \o Str(post)

\* what the rules build for [[T|L]]: the whole inner text is both the text
\* shown and the target
C23_WholeTextIsTarget ==
    /\ BothDone
    /\ TokenOf(<<"x">>, <<"T", "|", "L">>, <<>>)
    /\ rTyped = Str(<<"x">>) \o WikiEntity(<<"T", "|", "L">>)
    /\ rPasted = rTyped
    /\ rTyped[2].href = <<"wiki:", "T", "|", "L">>

HasWikiEntity(para) == \E i \in DOMAIN para : para[i].wiki

\* C24: text with overlapping or unbalanced brackets ("[[[a]]", "[[a[[b]]",
\* "[[a]", "[[]]") never produces a wiki-link entity, typed or pasted.
C24_OnlyBalanced ==
    (BothDone /\ rTarget \in MalformedTargets) =>
        /\ ~HasWikiEntity(rTyped)
        /\ ~HasWikiEntity(rPasted)

\* what holds: "[[a]" and "[[]]" produce nothing
C24_IncompleteAndEmpty ==
    (BothDone /\ rTarget \in {<<"[", "[", "a", "]">>, <<"[", "[", "]", "]">>}) =>
        /\ rTyped = Str(rTarget)
        /\ rPasted = Str(rTarget)

\* "[[[a]]" typed and pasted is the link "[a"; "[[a[[b]]" typed is the link
\* "a[[b"
C24_ThirdBracketLinked ==
    /\ BothDone
    /\ rTarget = <<"[", "[", "[", "a", "]", "]">>
    /\ rTyped = WikiEntity(<<"[", "a">>)
    /\ rPasted = WikiEntity(<<"[", "a">>)

C24_OverlapLinked ==
    /\ BothDone
    /\ rTarget = <<"[", "[", "a", "[", "[", "b", "]", "]">>
    /\ rTyped = WikiEntity(<<"a", "[", "[", "b">>)

-----------------------------------------------------------------------------
(* C25 : wiki-links on load                                                *)

\* the inline nodes of the loaded document, block after block
RECURSIVE InlineOf(_)
InlineOf(doc) == IF doc = <<>> THEN <<>> ELSE doc[1].content \o InlineOf(Tail(doc))

\* a text under the Link mark: the target of a standard markdown link
UnderLinkMark(n) == n.href # <<>> /\ ~n.wiki

\* two brackets left as text
LiteralBrackets(ns) ==
    \E i \in 1..(Len(ns) - 1) : ns[i].ch = "[" /\ ns[i + 1].ch = "[" /\ ~ns[i].wiki

Loaded == cvStage = "loaded" /\ cvIn \in LoadInputs

\* C25: when the markdown of a note is converted to a document, every
\* [[...]] of the content becomes a wiki-link entity: none is read as a
\* standard markdown link (also when the token is followed by (url)) and
\* none is left as literal bracket text.
C25_WikiBeforeLinks ==
    Loaded =>
        LET ns == InlineOf(cvDoc)
        IN /\ \E i \in DOMAIN ns : ns[i].wiki
           /\ \A i \in DOMAIN ns : ~UnderLinkMark(ns[i])
           /\ ~LiteralBrackets(ns)

\* what holds: a token with no (url) behind it becomes a wiki-link
C25_WikiWithoutUrl ==
    (Loaded /\ cvIn[Len(cvIn)] # ")") =>
        LET ns == InlineOf(cvDoc)
        IN /\ \E i \in DOMAIN ns : ns[i].wiki
           /\ \A i \in DOMAIN ns : ~UnderLinkMark(ns[i])
           /\ ~LiteralBrackets(ns)

\* [[T]](u) is loaded as the standard link "[T]" to u, with no wiki-link
C25_ReadAsMarkdownLink ==
    /\ Loaded
    /\ cvIn = <<"[", "[", "T", "]", "]", "(", "u", ")">>
    /\ cvDoc = <<Block("paragraph", 0, FALSE,
                    <<TextNode("[", FALSE, FALSE, FALSE, <<"u">>),
                      TextNode("T", FALSE, FALSE, FALSE, <<"u">>),
                      TextNode("]", FALSE, FALSE, FALSE, <<"u">>)>>)>>


-----------------------------------------------------------------------------
(* C26 : the graph's edges against the backlinks                           *)

\* the edges generateGraphData draws into the note the backlinks were asked
\* for, over the same corpus
EdgesIntoTarget ==
    {l \in Range(generateGraphData(bNotes, <<>>).links) : l.target = bTarget}

BacklinkIds == {bResult[i].id : i \in DOMAIN bResult}

\* whether the content of note id holds a [[...]] whose part before the "|"
\* has white space at one of its ends
HasPaddedCapture(ns, id) ==
    \E i \in DOMAIN ns :
        /\ ns[i].id = id
        /\ \E c \in Range(WikiLinkCaptures(ns[i].content, 1)) :
              trim(SplitFirst(c, "|")) # SplitFirst(c, "|")

\* C26: for every corpus and every edge S -> T of generateGraphData, S is
\* among getBacklinks(T): the backlink check only ever accepts more than the
\* edge builder.
C26_EdgesAreBacklinks ==
    bDone => \A l \in EdgesIntoTarget : l.source \in BacklinkIds

\* what holds instead: an edge whose source is no backlink comes from a
\* capture that the edge builder trimmed
C26_EdgesOfUnpaddedAreBacklinks ==
    bDone => \A l \in EdgesIntoTarget :
                l.source \in BacklinkIds \/ HasPaddedCapture(bNotes, l.source)

\* "[[ a |x]]": an edge into the note titled a, and no backlink of it
C26_EdgeWithoutBacklink ==
    /\ bDone
    /\ \E l \in EdgesIntoTarget : l.source \notin BacklinkIds

\* the other direction, which the claim allows: a backlink without an edge
C26_BacklinkWithoutEdge ==
    /\ bDone
    /\ \E id \in BacklinkIds : \A l \in EdgesIntoTarget : l.source # id


-----------------------------------------------------------------------------
(* C27 : a chat request sent while another one streams                     *)

\* the pieces of a text that no call but r produced
OnlyFrom(text, r) == \A i \in DOMAIN text : text[i].from = r

\* C27: a new request supersedes the previous one: the chunks of an earlier
\* request that arrive after a newer message was sent are discarded, and the
\* model message of each request holds only text produced for that request,
\* under every interleaving of the chunk streams.
C27_NewestSupersedes ==
    \A i \in DOMAIN hHistory :
        hOwner[i] # 0 => OnlyFrom(hHistory[i].text, hOwner[i])

\* what holds instead: the last model message holds the whole response of
\* the call whose chunk arrived last, and nothing after it is ever rewritten
C27_LastMessageOnly ==
    \A i \in DOMAIN hHistory :
        (hOwner[i] # 0 /\ i < Len(hHistory)) => OnlyFrom(hHistory[i].text, hOwner[i])

\* the message of the second request holds a text of the first one
C27_EarlierTextInNewest ==
    /\ hSent = 2
    /\ hOwner[Len(hHistory)] = 2
    /\ hHistory[Len(hHistory)].text # <<>>
    /\ OnlyFrom(hHistory[Len(hHistory)].text, 1)

\* the two streams running at the same time
C27_TwoStreams ==
    /\ hPhase[1] = "streaming"
    /\ hPhase[2] = "streaming"


-----------------------------------------------------------------------------
(* C28 : the tabs and the active note                                      *)

OpenIds == {kOpen[i] : i \in DOMAIN kOpen}
ExistingIds == {kNotes[i].id : i \in DOMAIN kNotes}

\* C28: after any sequence of open-note, close-tab, delete-note and
\* delete-selected operations every id in openNoteIds is the id of an
\* existing note, and activeNoteId is empty or one of openNoteIds.
C28_TabsConsistent ==
    /\ OpenIds \subseteq ExistingIds
    /\ kActive = NoNoteId \/ kActive \in OpenIds

\* what holds instead: the tabs hold no id twice, and a note that was just
\* opened exists, has a tab and is the active note
C28_TabsWeak ==
    /\ \A i, j \in DOMAIN kOpen : kOpen[i] = kOpen[j] => i = j
    /\ (kLast # <<>> /\ kLast[1].kind = "open") =>
            kActive \in OpenIds \cap ExistingIds

\* handleDeleteNote of the only open note: the first remaining note becomes
\* active without a tab
C28_ActiveWithoutTab ==
    /\ kLast # <<>> /\ kLast[1].kind = "deleteNote"
    /\ kActive # NoNoteId
    /\ kActive \notin OpenIds

\* handleDeleteSelected of an open note that is not the active one: its tab
\* stays
C28_TabOfDeletedNote ==
    /\ kLast # <<>> /\ kLast[1].kind = "deleteSelected"
    /\ ~(OpenIds \subseteq ExistingIds)

\* handleDeleteSelected of the folder of the active note: the note is gone
\* and stays active
C28_ActiveDeleted ==
    /\ kLast # <<>> /\ kLast[1].kind = "deleteSelected"
    /\ kActive # NoNoteId
    /\ kActive \notin ExistingIds


-----------------------------------------------------------------------------
(* C29 : no item is orphaned                                               *)

\* the folder ids that notes, attachments and folders point to
PointedFolders ==
    {notes[i].folderId : i \in DOMAIN notes}
        \cup {attachments[i].folderId : i \in DOMAIN attachments}
        \cup {folders[i].parentId : i \in DOMAIN folders}

\* C29: after any sequence of create, move, delete-folder and
\* delete-selected operations every note.folderId, attachment.folderId and
\* folder.parentId that is set names an existing folder: deleting a folder
\* moves all that is directly inside it to the root level, deleting selected
\* folders deletes every file inside them at any depth.
C29_NoOrphans == PointedFolders \ {NoId} \subseteq FolderIds(folders)

\* what holds instead: a deleted folder's notes and subfolders, not its
\* attachments, are at the root level afterwards
C29_DeleteFolderMovesNotes ==
    [][lastOp' = "handleDeleteFolder" =>
          \A d \in FolderIds(folders) \ FolderIds(folders') :
              /\ \A i \in DOMAIN notes :
                    notes[i].folderId = d => notes'[i].folderId = NoId
              /\ \A i \in DOMAIN folders', j \in DOMAIN folders :
                    (folders[j].parentId = d /\ folders'[i].id = folders[j].id)
                        => folders'[i].parentId = NoId
              /\ attachments' = attachments]_vars

\* handleDeleteFolder of a folder that holds an attachment
C29_AttachmentOrphaned ==
    /\ lastOp = "handleDeleteFolder"
    /\ \E i \in DOMAIN attachments :
          attachments[i].folderId \notin FolderIds(folders) \cup {NoId}

\* handleDeleteSelected of a folder: a note two levels below it stays, in a
\* folder that is gone
C29_NestedNoteOrphaned ==
    /\ lastOp = "handleDeleteSelected"
    /\ \E i \in DOMAIN notes : notes[i].folderId \notin FolderIds(folders) \cup {NoId}


-----------------------------------------------------------------------------
(* C30 : when a suggested title is applied                                 *)

\* C30: a suggested title is applied to a note only if, at that moment, the
\* note's title is still "Untitled Note" or blank and the note is not being
\* renamed; a title the user set while the request was in flight is never
\* overwritten, and the note is the one whose content was sent.
C30_AppliedOnlyToUntitled ==
    tApplied # <<>> =>
        /\ NeedsTitle(tApplied[1].before)
        /\ tApplied[1].editing # tApplied[1].note
        /\ tApplied[1].note = tApplied[1].sentFor

\* what holds instead: the title and editingId are tested when the request
\* is made, and the answer goes to the note the request was made for
C30_TestedWhenAsked ==
    /\ [](tApplied # <<>> => tApplied[1].note = tApplied[1].sentFor)
    /\ [][\A r \in tFlight' \ tFlight :
              /\ NeedsTitle(tTitles[r.sentFor])
              /\ tEditing # r.sentFor
              /\ r.sentFor = tActive]_vars

\* the user's title was overwritten
C30_UserTitleOverwritten ==
    /\ tApplied # <<>>
    /\ tApplied[1].before = "Mine"
    /\ tTitles[tApplied[1].note] = "Suggested"

\* the title was applied while the note was being renamed
C30_AppliedWhileRenaming ==
    /\ tApplied # <<>>
    /\ tApplied[1].editing = tApplied[1].note

\* the title was applied to the note while another note was active
C30_AppliedToInactive ==
    /\ tApplied # <<>>
    /\ NeedsTitle(tApplied[1].before)
    /\ tActive # tApplied[1].note
    /\ tTitles[tApplied[1].note] = "Suggested"

====
